---- MODULE Spec2Model ----
(***************************************************************************)
(* Evenflow MCP adapter: the per-location affinity trace store, the read   *)
(* operations of EvenflowAdapter (mcp/world_adapter.py), the FastMCP tool  *)
(* layer (mcp/tools.py) and the Lambda tools/call route                    *)
(* (aws/lambda_handler.py).                                                *)
(*                                                                         *)
(* Numbers are fixed point: 1.0 is Milli (1000).  Time is in seconds.      *)
(* An event type such as "harm.fire" is the tuple of its dot-separated     *)
(* segments <<"harm", "fire">>, so that event_type.split('.')[0] is the    *)
(* first segment.  A Python dict is a sequence of [key, rec] entries in    *)
(* insertion order with unique keys.                                       *)
(***************************************************************************)
EXTENDS Integers, Sequences, FiniteSets, TLC

VARIABLES locations, registry, now, logged, last, pc, frame, calls

vars == <<locations, registry, now, logged, last, pc, frame, calls>>

(***************************************************************************)
(* Bounds of the model                                                     *)
(***************************************************************************)
MaxEvents == 2
MaxTicks == 1
MaxLimit == 2
MaxPredictions == 2

Milli == 10 * 100
SecondsPerDay == 86400
None == "<None>"
NoEventType == <<>>

(***************************************************************************)
(* Small input sets                                                        *)
(***************************************************************************)
Actors == {"alice", "bob"}
Tags == {"elf"}
HarmFire == <<"harm", "fire">>
HarmSword == <<"harm", "sword">>
OfferGift == <<"offer", "gift">>
LoggedEventTypes == {HarmFire, OfferGift}
LoggedIntensities == {Milli}
PredictedEventTypes == {HarmFire, HarmSword, OfferGift}
PredictedIntensities == {0, Milli}
ExplainedEventTypes == PredictedEventTypes \cup {<<"create", "garden">>, <<"harm">>}
AffordanceTypes == {"pathing", "spawn", "weather"}
Channels == {"personal", "group", "behavior"}
UnknownLocation == "nowhere"

(***************************************************************************)
(* Generic helpers                                                         *)
(***************************************************************************)
Min(a, b) == IF a < b THEN a ELSE b

Max(a, b) == IF a > b THEN a ELSE b

RECURSIVE Pow2(_)
Pow2(n) == IF n <= 0 THEN 1 ELSE 2 * Pow2(n - 1)

RECURSIVE SumSeq(_)
SumSeq(s) == IF s = <<>> THEN 0 ELSE Head(s) + SumSeq(Tail(s))

RECURSIVE Concat(_)
Concat(ss) == IF ss = <<>> THEN <<>> ELSE Head(ss) \o Concat(Tail(ss))

Range(s) == {s[i] : i \in DOMAIN s}

(***************************************************************************)
(* Configuration (world.affinity.config, read through get_config)          *)
(***************************************************************************)
half_lives == [personal |-> 2, group |-> 4, behavior |-> 1]

channel_weights == [personal |-> 500, group |-> 300, behavior |-> 200]

saturation_capacity == [personal |-> 4 * Milli, group |-> 4 * Milli, behavior |-> 4 * Milli]

scar_event_count == 2

(***************************************************************************)
(* Static location definitions (world/locations/*.yaml as parsed by        *)
(* _parse_location_yaml)                                                   *)
(***************************************************************************)
AffordanceConfig(type, enabled, handle, hostile, favorable) ==
    [affordance_type |-> type, enabled |-> enabled, mechanical_handle |-> handle,
     severity_clamp_hostile |-> 500, severity_clamp_favorable |-> -300,
     cooldown_seconds |-> 3600,
     tells_hostile |-> hostile, tells_favorable |-> favorable]

NewLocation(id, name, profile, affordances) ==
    [location_id |-> id, name |-> name, description |-> "",
     valuation_profile |-> profile,
     affordances |-> affordances,
     personal_traces |-> <<>>, group_traces |-> <<>>, behavior_traces |-> <<>>,
     saturation |-> [personal |-> 0, group |-> 0, behavior |-> 0],
     cooldowns |-> <<>>,
     last_tick |-> 0]

WoodsProfile ==
    (<<"harm">> :> -300) @@ (HarmFire :> -800) @@ (OfferGift :> 600)

RuinsProfile ==
    (<<"offer">> :> 400) @@ (HarmFire :> -600)

WorldDefinitions ==
    <<NewLocation("whispering_woods", "Whispering Woods", WoodsProfile,
        <<AffordanceConfig("pathing", TRUE, "room.pathing",
              <<"the woods creak", "branches close in">>, <<"the woods hum">>),
          AffordanceConfig("spawn", FALSE, None,
              <<"eyes in the dark">>, <<"deer graze nearby">>),
          AffordanceConfig("weather", TRUE, None,
              <<>>, <<"a warm breeze">>)>>),
      NewLocation("sunken_ruins", "Sunken Ruins", RuinsProfile,
        <<AffordanceConfig("pathing", FALSE, None,
              <<"stones shift">>, <<>>),
          AffordanceConfig("weather", TRUE, None,
              <<"cold fog rises">>, <<>>)>>)>>

LocationOrder == [i \in DOMAIN WorldDefinitions |-> WorldDefinitions[i].location_id]

LocationIds == Range(LocationOrder)

AllLocationIds == LocationIds \cup {UnknownLocation}

load_yaml_locations ==
    [id \in LocationIds |->
        CHOOSE d \in Range(WorldDefinitions) : d.location_id = id]

(***************************************************************************)
(* world.affinity.computation: decay, valuation, channel scores, label     *)
(***************************************************************************)
QuarterPowers == <<1000, 841, 707, 595>>

\* 2^(-dt/half_life) in thousandths, exact on quarter half-lives.
Pow2NegMilli(dt, half_life) ==
    LET q == IF dt <= 0 THEN 0 ELSE (4 * dt) \div half_life
    IN QuarterPowers[(q % 4) + 1] \div Pow2(q \div 4)

get_decayed_value(trace, half_life, t) ==
    IF trace.is_scar
    THEN trace.accumulated
    ELSE (trace.accumulated * Pow2NegMilli(t - trace.last_updated, half_life)) \div Milli

Category(event_type) == <<event_type[1]>>

valuation_weight(profile, event_type) ==
    IF event_type \in DOMAIN profile THEN profile[event_type]
    ELSE IF Category(event_type) \in DOMAIN profile THEN profile[Category(event_type)]
    ELSE 0

TraceScore(entry, event_type, half_life, profile, t) ==
    (get_decayed_value(entry.rec, half_life, t) * valuation_weight(profile, event_type))
        \div Milli

score_personal(traces, actor_id, half_life, profile, t) ==
    SumSeq([i \in DOMAIN traces |->
        IF traces[i].key[1] = actor_id
        THEN TraceScore(traces[i], traces[i].key[2], half_life, profile, t)
        ELSE 0])

score_group(traces, actor_tags, half_life, profile, t) ==
    SumSeq([i \in DOMAIN traces |->
        IF traces[i].key[1] \in actor_tags
        THEN TraceScore(traces[i], traces[i].key[2], half_life, profile, t)
        ELSE 0])

score_behavior(traces, half_life, profile, t) ==
    SumSeq([i \in DOMAIN traces |->
        TraceScore(traces[i], traces[i].key, half_life, profile, t)])

\* Faulty variant: the wary and warm bands are exchanged.
get_threshold_label_bands_exchanged(total) ==
    IF total <= -600 THEN "hostile"
    ELSE IF total <= -200 THEN "warm"
    ELSE IF total < 200 THEN "neutral"
    ELSE IF total < 600 THEN "wary"
    ELSE "favorable"

get_threshold_label(total) ==
    IF total <= -600 THEN "hostile"
    ELSE IF total <= -200 THEN "wary"
    ELSE IF total < 200 THEN "neutral"
    ELSE IF total < 600 THEN "warm"
    ELSE "favorable"

(***************************************************************************)
(* world.affinity.events.log_event: the only mutation of trace maps        *)
(***************************************************************************)
AffinityEvent(event_type, actor_id, actor_tags, location_id, intensity) ==
    [event_type |-> event_type, actor_id |-> actor_id, actor_tags |-> actor_tags,
     location_id |-> location_id, intensity |-> intensity]

HasKey(traces, key) == \E i \in DOMAIN traces : traces[i].key = key

\* Create the record if absent, otherwise add the intensity (clamped to the
\* channel capacity), count the event, stamp it, and promote to a scar.
UpsertTrace(traces, key, intensity, capacity, t) ==
    IF HasKey(traces, key)
    THEN [i \in DOMAIN traces |->
            IF traces[i].key = key
            THEN [key |-> key,
                  rec |-> [accumulated |-> Min(capacity, traces[i].rec.accumulated + intensity),
                           last_updated |-> t,
                           event_count |-> traces[i].rec.event_count + 1,
                           is_scar |-> traces[i].rec.is_scar
                                       \/ traces[i].rec.event_count + 1 >= scar_event_count]]
            ELSE traces[i]]
    ELSE Append(traces,
            [key |-> key,
             rec |-> [accumulated |-> Min(capacity, intensity), last_updated |-> t,
                      event_count |-> 1, is_scar |-> FALSE]])

RECURSIVE UpsertTags(_, _, _, _, _, _)
UpsertTags(traces, tags, event_type, intensity, capacity, t) ==
    IF tags = {} THEN traces
    ELSE LET tag == CHOOSE x \in tags : TRUE
         IN UpsertTags(UpsertTrace(traces, <<tag, event_type>>, intensity, capacity, t),
                       tags \ {tag}, event_type, intensity, capacity, t)

log_event(location, event, t) ==
    [location EXCEPT
        !.personal_traces =
            UpsertTrace(@, <<event.actor_id, event.event_type>>, event.intensity,
                        saturation_capacity.personal, t),
        !.group_traces =
            UpsertTags(@, event.actor_tags, event.event_type, event.intensity,
                       saturation_capacity.group, t),
        !.behavior_traces =
            UpsertTrace(@, event.event_type, event.intensity,
                        saturation_capacity.behavior, t),
        !.saturation =
            [personal |-> Min(saturation_capacity.personal, @.personal + event.intensity),
             group |-> Min(saturation_capacity.group,
                           @.group + event.intensity * Cardinality(event.actor_tags)),
             behavior |-> Min(saturation_capacity.behavior, @.behavior + event.intensity)]]

(***************************************************************************)
(* world.affinity.affordances: the process-wide registry                   *)
(***************************************************************************)
is_affordance_enabled(reg, affordance_type) ==
    IF affordance_type \in DOMAIN reg THEN reg[affordance_type] ELSE TRUE

admin_get_registry(reg) == reg

(***************************************************************************)
(* mcp/schemas.py: result shapes.  A dataclass and the dict to_dict makes   *)
(* of it are the same record.  An Optional result that is None is the      *)
(* record NoneResult.                                                      *)
(***************************************************************************)
NoneResult == [is_none |-> TRUE]

IsNone(r) == r = NoneResult

Truthy(s) == s # None /\ s # ""

DecayChannel == {"personal", "group", "behavior"}

FormatPairKey(subject, event_type) == <<"(", subject>> \o event_type \o <<")">>

TraceInfo(key, channel, trace, decayed) ==
    [key |-> key, channel |-> channel, accumulated |-> trace.accumulated,
     decayed_value |-> decayed, last_updated |-> trace.last_updated,
     event_count |-> trace.event_count, is_scar |-> trace.is_scar]

(***************************************************************************)
(* EvenflowAdapter._load_yaml_locations, one file of the directory at a    *)
(* time.  What yaml.safe_load gives for a file is a dict (a function of    *)
(* its keys) or, for an empty file, None.                                  *)
(***************************************************************************)
\* d.get(key, default)
DictGet(d, key, default) == IF key \in DOMAIN d THEN d[key] ELSE default

\* AffordanceConfig(...) of one entry of data["affordances"]
ParseAffordance(aff_data) ==
    [AffordanceConfig(aff_data.type,
                      DictGet(aff_data, "enabled", TRUE),
                      DictGet(aff_data, "mechanical_handle", None),
                      DictGet(DictGet(aff_data, "tells", <<>>), "hostile", <<>>),
                      DictGet(DictGet(aff_data, "tells", <<>>), "favorable", <<>>))
        EXCEPT !.cooldown_seconds = DictGet(aff_data, "cooldown_seconds", 3600)]

\* The outcome is [exc, value].  data.get on None raises AttributeError;
\* aff_data["type"], data["location_id"] and data["name"] raise KeyError, in
\* that order.
parse_location_yaml(data) ==
    IF data = NoneResult
    THEN [exc |-> "AttributeError", value |-> NoneResult]
    ELSE LET aff_list == DictGet(data, "affordances", <<>>)
         IN IF \E i \in DOMAIN aff_list : "type" \notin DOMAIN aff_list[i]
            THEN [exc |-> "KeyError", value |-> NoneResult]
            ELSE IF "location_id" \notin DOMAIN data \/ "name" \notin DOMAIN data
                 THEN [exc |-> "KeyError", value |-> NoneResult]
                 ELSE [exc |-> None,
                       value |->
                          [NewLocation(data.location_id, data.name,
                                       DictGet(data, "valuation_profile", <<>>),
                                       [i \in DOMAIN aff_list |->
                                           ParseAffordance(aff_list[i])])
                              EXCEPT !.description = DictGet(data, "description", "")]]

\* self._locations[location.location_id] = location
StorePut(locs, location) ==
    [id \in DOMAIN locs \cup {location.location_id} |->
        IF id = location.location_id THEN location ELSE locs[id]]

\* Faulty variant: the id is entered in the store before the rest is parsed.
load_yaml_file_entered_first(locs, file) ==
    LET outcome == parse_location_yaml(file.data)
    IN IF outcome.exc # None
       THEN [locs |-> IF file.data # NoneResult /\ "location_id" \in DOMAIN file.data
                      THEN StorePut(locs, [location_id |-> file.data.location_id])
                      ELSE locs,
             warnings |-> {file.file}]
       ELSE [locs |-> StorePut(locs, outcome.value), warnings |-> {}]

\* One turn of the loop: try parse and store, except print a warning.
load_yaml_file(locs, file) ==
    LET outcome == parse_location_yaml(file.data)
    IN IF outcome.exc # None
       THEN [locs |-> locs, warnings |-> {file.file}]
       ELSE [locs |-> StorePut(locs, outcome.value), warnings |-> {}]

(***************************************************************************)
(* EvenflowAdapter: location queries                                       *)
(***************************************************************************)
get_location(locs, location_id) ==
    IF location_id \in DOMAIN locs THEN locs[location_id] ELSE NoneResult

list_locations(locs) == SelectSeq(LocationOrder, LAMBDA id : id \in DOMAIN locs)

PairTraceInfos(traces, channel, half_life, t, decay_to_now) ==
    [i \in DOMAIN traces |->
        TraceInfo(FormatPairKey(traces[i].key[1], traces[i].key[2]), channel,
                  traces[i].rec,
                  IF decay_to_now
                  THEN get_decayed_value(traces[i].rec, half_life, t)
                  ELSE traces[i].rec.accumulated)]

BehaviorTraceInfos(traces, half_life, t, decay_to_now) ==
    [i \in DOMAIN traces |->
        TraceInfo(traces[i].key, "behavior", traces[i].rec,
                  IF decay_to_now
                  THEN get_decayed_value(traces[i].rec, half_life, t)
                  ELSE traces[i].rec.accumulated)]

\* Faulty variant: the global registry is not consulted.
AffordanceInfoLocalFlag(location, reg, aff, t) ==
    [affordance_type |-> aff.affordance_type,
     enabled |-> aff.enabled,
     mechanical_handle |-> aff.mechanical_handle,
     severity_clamp_hostile |-> aff.severity_clamp_hostile,
     severity_clamp_favorable |-> aff.severity_clamp_favorable,
     cooldown_seconds |-> aff.cooldown_seconds,
     cooldown_remaining |->
        IF aff.affordance_type \in DOMAIN location.cooldowns
        THEN <<Max(0, location.cooldowns[aff.affordance_type] - t)>>
        ELSE <<>>,
     tells_hostile |-> aff.tells_hostile,
     tells_favorable |-> aff.tells_favorable]

\* Faulty variant: the remaining cooldown is not floored at zero.
AffordanceInfoRawRemaining(location, reg, aff, t) ==
    [affordance_type |-> aff.affordance_type,
     enabled |-> aff.enabled /\ is_affordance_enabled(reg, aff.affordance_type),
     mechanical_handle |-> aff.mechanical_handle,
     severity_clamp_hostile |-> aff.severity_clamp_hostile,
     severity_clamp_favorable |-> aff.severity_clamp_favorable,
     cooldown_seconds |-> aff.cooldown_seconds,
     cooldown_remaining |->
        IF aff.affordance_type \in DOMAIN location.cooldowns
        THEN <<location.cooldowns[aff.affordance_type] - t>>
        ELSE <<>>,
     tells_hostile |-> aff.tells_hostile,
     tells_favorable |-> aff.tells_favorable]

AffordanceInfo(location, reg, aff, t) ==
    [affordance_type |-> aff.affordance_type,
     enabled |-> aff.enabled /\ is_affordance_enabled(reg, aff.affordance_type),
     mechanical_handle |-> aff.mechanical_handle,
     severity_clamp_hostile |-> aff.severity_clamp_hostile,
     severity_clamp_favorable |-> aff.severity_clamp_favorable,
     cooldown_seconds |-> aff.cooldown_seconds,
     cooldown_remaining |->
        IF aff.affordance_type \in DOMAIN location.cooldowns
        THEN <<Max(0, location.cooldowns[aff.affordance_type] - t)>>
        ELSE <<>>,
     tells_hostile |-> aff.tells_hostile,
     tells_favorable |-> aff.tells_favorable]

get_location_state(locs, reg, query, t) ==
    IF query.location_id \notin DOMAIN locs THEN NoneResult
    ELSE
    LET location == locs[query.location_id]
        traces ==
            IF query.include_traces
            THEN PairTraceInfos(location.personal_traces, "personal",
                                half_lives.personal * SecondsPerDay, t, query.decay_to_now)
                 \o PairTraceInfos(location.group_traces, "group",
                                   half_lives.group * SecondsPerDay, t, query.decay_to_now)
                 \o BehaviorTraceInfos(location.behavior_traces,
                                       half_lives.behavior * SecondsPerDay, t,
                                       query.decay_to_now)
            ELSE <<>>
        affordances ==
            IF query.include_affordances
            THEN [i \in DOMAIN location.affordances |->
                    AffordanceInfo(location, reg, location.affordances[i], t)]
            ELSE <<>>
    IN [location_id |-> location.location_id,
        name |-> location.name,
        description |-> location.description,
        valuation_profile |-> location.valuation_profile,
        saturation |-> location.saturation,
        traces |-> traces,
        affordances |-> affordances,
        last_tick |-> location.last_tick]

(***************************************************************************)
(* EvenflowAdapter: affinity                                               *)
(***************************************************************************)
\* Faulty variant: the behavior channel is blended with the group weight.
compute_affinity_group_weight_twice(locs, location_id, actor_id, actor_tags, t) ==
    IF location_id \notin DOMAIN locs THEN NoneResult
    ELSE
    LET location == locs[location_id]
        personal == score_personal(location.personal_traces, actor_id,
                                   half_lives.personal * SecondsPerDay,
                                   location.valuation_profile, t)
        group == score_group(location.group_traces, actor_tags,
                             half_lives.group * SecondsPerDay,
                             location.valuation_profile, t)
        behavior == score_behavior(location.behavior_traces,
                                   half_lives.behavior * SecondsPerDay,
                                   location.valuation_profile, t)
        total == (personal * channel_weights.personal
                  + group * channel_weights.group
                  + behavior * channel_weights.group) \div Milli
    IN [total |-> total, personal |-> personal, group |-> group,
        behavior |-> behavior, threshold_label |-> get_threshold_label(total)]

compute_affinity_for_actor(locs, location_id, actor_id, actor_tags, t) ==
    IF location_id \notin DOMAIN locs THEN NoneResult
    ELSE
    LET location == locs[location_id]
        personal == score_personal(location.personal_traces, actor_id,
                                   half_lives.personal * SecondsPerDay,
                                   location.valuation_profile, t)
        group == score_group(location.group_traces, actor_tags,
                             half_lives.group * SecondsPerDay,
                             location.valuation_profile, t)
        behavior == score_behavior(location.behavior_traces,
                                   half_lives.behavior * SecondsPerDay,
                                   location.valuation_profile, t)
        total == (personal * channel_weights.personal
                  + group * channel_weights.group
                  + behavior * channel_weights.behavior) \div Milli
    IN [total |-> total, personal |-> personal, group |-> group,
        behavior |-> behavior, threshold_label |-> get_threshold_label(total)]

(***************************************************************************)
(* EvenflowAdapter.query_traces                                            *)
(***************************************************************************)
TraceQuery(location_id, actor_id, event_type, channel, min_intensity, limit) ==
    [location_id |-> location_id, actor_id |-> actor_id, event_type |-> event_type,
     channel |-> channel, min_intensity |-> min_intensity, limit |-> limit]

\* results[:limit] of a Python list
SliceTo(s, limit) ==
    LET n == IF limit >= 0 THEN Min(limit, Len(s)) ELSE Max(0, Len(s) + limit)
    IN SubSeq(s, 1, n)

\* list.sort(key=decayed_value, reverse=True): stable, descending
RECURSIVE InsertDescending(_, _)
InsertDescending(sorted, x) ==
    IF sorted = <<>> THEN <<x>>
    ELSE IF Head(sorted).decayed_value >= x.decayed_value
         THEN <<Head(sorted)>> \o InsertDescending(Tail(sorted), x)
         ELSE <<x>> \o sorted

RECURSIVE SortDescending(_)
SortDescending(s) ==
    IF s = <<>> THEN <<>>
    ELSE InsertDescending(SortDescending(SubSeq(s, 1, Len(s) - 1)), s[Len(s)])

\* Faulty variant: a trace whose decayed value equals min_intensity is dropped.
QueryPersonalStrict(location, query, t) ==
    IF query.channel = None \/ query.channel = "personal"
    THEN LET half_life == half_lives.personal * SecondsPerDay
             traces == location.personal_traces
             keep(i) ==
                /\ ~(Truthy(query.actor_id) /\ traces[i].key[1] # query.actor_id)
                /\ ~(query.event_type # NoEventType /\ traces[i].key[2] # query.event_type)
                /\ ~(get_decayed_value(traces[i].rec, half_life, t) <= query.min_intensity)
             infos == PairTraceInfos(traces, "personal", half_life, t, TRUE)
         IN Concat([i \in DOMAIN traces |-> IF keep(i) THEN <<infos[i]>> ELSE <<>>])
    ELSE <<>>

QueryPersonal(location, query, t) ==
    IF query.channel = None \/ query.channel = "personal"
    THEN LET half_life == half_lives.personal * SecondsPerDay
             traces == location.personal_traces
             keep(i) ==
                /\ ~(Truthy(query.actor_id) /\ traces[i].key[1] # query.actor_id)
                /\ ~(query.event_type # NoEventType /\ traces[i].key[2] # query.event_type)
                /\ ~(get_decayed_value(traces[i].rec, half_life, t) < query.min_intensity)
             infos == PairTraceInfos(traces, "personal", half_life, t, TRUE)
         IN Concat([i \in DOMAIN traces |-> IF keep(i) THEN <<infos[i]>> ELSE <<>>])
    ELSE <<>>

QueryGroup(location, query, t) ==
    IF query.channel = None \/ query.channel = "group"
    THEN LET half_life == half_lives.group * SecondsPerDay
             traces == location.group_traces
             keep(i) ==
                /\ ~(query.event_type # NoEventType /\ traces[i].key[2] # query.event_type)
                /\ ~(get_decayed_value(traces[i].rec, half_life, t) < query.min_intensity)
             infos == PairTraceInfos(traces, "group", half_life, t, TRUE)
         IN Concat([i \in DOMAIN traces |-> IF keep(i) THEN <<infos[i]>> ELSE <<>>])
    ELSE <<>>

\* Faulty variant: the behavior channel ignores the event-type filter.
QueryBehaviorAnyEvent(location, query, t) ==
    IF query.channel = None \/ query.channel = "behavior"
    THEN LET half_life == half_lives.behavior * SecondsPerDay
             traces == location.behavior_traces
             keep(i) == ~(get_decayed_value(traces[i].rec, half_life, t) < query.min_intensity)
             infos == BehaviorTraceInfos(traces, half_life, t, TRUE)
         IN Concat([i \in DOMAIN traces |-> IF keep(i) THEN <<infos[i]>> ELSE <<>>])
    ELSE <<>>

QueryBehavior(location, query, t) ==
    IF query.channel = None \/ query.channel = "behavior"
    THEN LET half_life == half_lives.behavior * SecondsPerDay
             traces == location.behavior_traces
             keep(i) ==
                /\ ~(query.event_type # NoEventType /\ traces[i].key # query.event_type)
                /\ ~(get_decayed_value(traces[i].rec, half_life, t) < query.min_intensity)
             infos == BehaviorTraceInfos(traces, half_life, t, TRUE)
         IN Concat([i \in DOMAIN traces |-> IF keep(i) THEN <<infos[i]>> ELSE <<>>])
    ELSE <<>>

QueryCandidates(locs, scanned, query, t) ==
    Concat([i \in DOMAIN scanned |->
        QueryPersonal(locs[scanned[i]], query, t)
        \o QueryGroup(locs[scanned[i]], query, t)
        \o QueryBehavior(locs[scanned[i]], query, t)])

\* Faulty variant: the list is cut to the limit before it is sorted.
QueryLimitThenSort(results, limit) == SortDescending(SliceTo(results, limit))

QuerySortAndLimit(results, limit) == SliceTo(SortDescending(results), limit)

\* The outcome is [exc, value]: self._locations[query.location_id] raises
\* KeyError for an id that is not a key of the store.
query_traces(locs, query, t) ==
    IF Truthy(query.location_id) /\ query.location_id \notin DOMAIN locs
    THEN [exc |-> "KeyError", value |-> <<>>]
    ELSE LET scanned == IF Truthy(query.location_id)
                        THEN <<query.location_id>>
                        ELSE list_locations(locs)
         IN [exc |-> None,
             value |-> QuerySortAndLimit(QueryCandidates(locs, scanned, query, t),
                                         query.limit)]

(***************************************************************************)
(* EvenflowAdapter.predict_action_consequence, statement by statement      *)
(***************************************************************************)
ActionPrediction(actor_id, actor_tags, location_id, event_type, intensity) ==
    [actor_id |-> actor_id, actor_tags |-> actor_tags, location_id |-> location_id,
     event_type |-> event_type, intensity |-> intensity]

PredictionEvent(prediction) ==
    AffinityEvent(prediction.event_type, prediction.actor_id, prediction.actor_tags,
                  prediction.location_id, prediction.intensity)

\* Faulty variant: the hypothetical event reaches the personal channel only.
predict_clone_personal_only(location, prediction, t) ==
    [location EXCEPT
        !.personal_traces =
            UpsertTrace(@, <<prediction.actor_id, prediction.event_type>>,
                        prediction.intensity, saturation_capacity.personal, t)]

\* temp_location = copy.deepcopy(location); log_event(temp_location, event)
predict_clone(location, prediction, t) ==
    log_event(location, PredictionEvent(prediction), t)

\* self._locations[prediction.location_id] = temp_location
predict_swap(locs, location_id, temp_location) ==
    [locs EXCEPT ![location_id] = temp_location]

\* Faulty variant: the original is never put back.
predict_restore_skipped(locs, location_id, original) == locs

\* if original: self._locations[prediction.location_id] = original
predict_restore(locs, location_id, original) ==
    IF IsNone(original) THEN locs ELSE [locs EXCEPT ![location_id] = original]

RECURSIVE TriggeredTypes(_)
TriggeredTypes(affordances) ==
    IF affordances = <<>> THEN <<>>
    ELSE (IF Head(affordances).enabled
          THEN <<Head(affordances).affordance_type>> ELSE <<>>)
         \o TriggeredTypes(Tail(affordances))

RECURSIVE FirstTells(_, _)
FirstTells(affordances, mode) ==
    IF affordances = <<>> THEN <<>>
    ELSE LET aff == Head(affordances)
             tells == IF mode = "hostile" THEN aff.tells_hostile ELSE aff.tells_favorable
         IN (IF aff.enabled /\ tells # <<>> THEN <<tells[1]>> ELSE <<>>)
            \o FirstTells(Tail(affordances), mode)

\* Faulty variant: warm and favorable outcomes trigger affordances too.
predict_triggered_symmetric(location, affinity_after) ==
    IF IsNone(affinity_after) THEN <<>>
    ELSE IF affinity_after.threshold_label # "neutral"
         THEN TriggeredTypes(location.affordances)
         ELSE <<>>

predict_triggered(location, affinity_after) ==
    IF IsNone(affinity_after) THEN <<>>
    ELSE IF affinity_after.threshold_label \in {"hostile", "wary"}
         THEN TriggeredTypes(location.affordances)
         ELSE <<>>

predict_hints(location, affinity_after) ==
    IF IsNone(affinity_after) THEN <<>>
    ELSE IF affinity_after.threshold_label \in {"hostile", "wary"}
         THEN FirstTells(location.affordances, "hostile")
         ELSE IF affinity_after.threshold_label \in {"warm", "favorable"}
              THEN FirstTells(location.affordances, "favorable")
              ELSE <<>>

ActionConsequence(prediction, location, affinity_before, affinity_after) ==
    [location_id |-> prediction.location_id,
     actor_id |-> prediction.actor_id,
     event_type |-> prediction.event_type,
     affinity_before |-> affinity_before,
     affinity_after |-> affinity_after,
     triggered_affordances |-> predict_triggered(location, affinity_after),
     narrative_hints |-> predict_hints(location, affinity_after)]

\* One uninterrupted call.  The clock is read once per affinity computation
\* and once by log_event: t0 <= t1.  The outcome is [locs, result].
predict_action_consequence(locs, prediction, t0, t1) ==
    IF prediction.location_id \notin DOMAIN locs
    THEN [locs |-> locs, result |-> NoneResult]
    ELSE
    LET id == prediction.location_id
        location == locs[id]
        affinity_before ==
            compute_affinity_for_actor(locs, id, prediction.actor_id,
                                       prediction.actor_tags, t0)
        temp_location == predict_clone(location, prediction, t0)
        original == get_location(locs, id)
        swapped == predict_swap(locs, id, temp_location)
        affinity_after ==
            compute_affinity_for_actor(swapped, id, prediction.actor_id,
                                       prediction.actor_tags, t1)
        restored == predict_restore(swapped, id, original)
    IN [locs |-> restored,
        result |-> ActionConsequence(prediction, location, affinity_before,
                                     affinity_after)]

\* A valuation weight or an intensity that is not a number (the profile
\* is taken from YAML as it is, the Lambda route passes arguments as they
\* are) is this value; arithmetic on it raises TypeError.
NotANumber == Milli * Milli

\* log_event raises when the intensity it adds is not a number.
LogRaises(event) == event.intensity = NotANumber

\* The scoring raises when a trace it scores has a weight that is not a number.
ScoreRaises(location, actor_id, actor_tags) ==
    LET weight(event_type) == valuation_weight(location.valuation_profile, event_type)
    IN \/ \E i \in DOMAIN location.personal_traces :
             /\ location.personal_traces[i].key[1] = actor_id
             /\ weight(location.personal_traces[i].key[2]) = NotANumber
       \/ \E i \in DOMAIN location.group_traces :
             /\ location.group_traces[i].key[1] \in actor_tags
             /\ weight(location.group_traces[i].key[2]) = NotANumber
       \/ \E i \in DOMAIN location.behavior_traces :
             weight(location.behavior_traces[i].key) = NotANumber

\* predict_action_consequence with the exceptions of the functions it
\* calls: the outcome is [locs, exc, result].  There is no try/finally: an
\* exception leaves the method at the statement that raised it.
predict_action_consequence_raising(locs, prediction, t0, t1) ==
    LET id == prediction.location_id
        raised(store) == [locs |-> store, exc |-> "TypeError", result |-> NoneResult]
    IN IF id \notin DOMAIN locs
       THEN [locs |-> locs, exc |-> None, result |-> NoneResult]
       ELSE IF ScoreRaises(locs[id], prediction.actor_id, prediction.actor_tags)
       THEN raised(locs)
       ELSE IF LogRaises(PredictionEvent(prediction))
       THEN raised(locs)
       ELSE LET temp_location == predict_clone(locs[id], prediction, t0)
                swapped == predict_swap(locs, id, temp_location)
            IN IF ScoreRaises(temp_location, prediction.actor_id, prediction.actor_tags)
               THEN raised(swapped)
               ELSE LET outcome == predict_action_consequence(locs, prediction, t0, t1)
                    IN [locs |-> outcome.locs, exc |-> None, result |-> outcome.result]

(***************************************************************************)
(* EvenflowAdapter.get_world_history_summary                               *)
(***************************************************************************)
HistoryCap == 10

RECURSIVE InsertByIntensity(_, _)
InsertByIntensity(sorted, x) ==
    IF sorted = <<>> THEN <<x>>
    ELSE IF Head(sorted).intensity >= x.intensity
         THEN <<Head(sorted)>> \o InsertByIntensity(Tail(sorted), x)
         ELSE <<x>> \o sorted

RECURSIVE SortByIntensity(_)
SortByIntensity(s) ==
    IF s = <<>> THEN <<>>
    ELSE InsertByIntensity(SortByIntensity(SubSeq(s, 1, Len(s) - 1)), s[Len(s)])

DominantCandidates(location, cutoff) ==
    LET traces == location.personal_traces
    IN Concat([i \in DOMAIN traces |->
            IF traces[i].rec.last_updated >= cutoff
            THEN <<[event_type |-> traces[i].key[2], actor |-> traces[i].key[1],
                    intensity |-> traces[i].rec.accumulated,
                    count |-> traces[i].rec.event_count]>>
            ELSE <<>>])

NotableActors(location, cutoff) ==
    {location.personal_traces[i].key[1] :
        i \in {j \in DOMAIN location.personal_traces :
                 location.personal_traces[j].rec.last_updated >= cutoff}}

\* list(notable_actors)[:10]: the first ten of a set in its iteration order,
\* which is any order: every subset of that size is a possible outcome.
NotablePicks(actors) ==
    {S \in SUBSET actors : Cardinality(S) = Min(HistoryCap, Cardinality(actors))}

BehaviorTotal(location, cutoff, category) ==
    LET traces == location.behavior_traces
    IN SumSeq([i \in DOMAIN traces |->
            IF traces[i].rec.last_updated >= cutoff /\ traces[i].key[1] = category
            THEN traces[i].rec.accumulated ELSE 0])

\* Faulty variant: offerings are looked at before harm.
MoodOfferFirst(harm, offer, create) ==
    IF offer > (3 * Milli) \div 10 \/ create > (3 * Milli) \div 10
    THEN (IF offer > Milli \div 2 THEN "sacred" ELSE "peaceful")
    ELSE IF harm > Milli \div 2
         THEN (IF harm < Milli THEN "troubled" ELSE "violent")
         ELSE "peaceful"

Mood(harm, offer, create) ==
    IF harm > Milli \div 2
    THEN (IF harm < Milli THEN "troubled" ELSE "violent")
    ELSE IF offer > (3 * Milli) \div 10 \/ create > (3 * Milli) \div 10
         THEN (IF offer > Milli \div 2 THEN "sacred" ELSE "peaceful")
         ELSE "peaceful"

ProfileGet(profile, key) == IF key \in DOMAIN profile THEN profile[key] ELSE 0

FolkloreSeeds(location, harm, offer, create) ==
    (IF harm > 0 /\ ProfileGet(location.valuation_profile, <<"harm">>) < 0
     THEN <<"remembers those who brought harm">> ELSE <<>>)
    \o (IF ProfileGet(location.valuation_profile, HarmFire) < -(Milli \div 2)
        THEN <<"Fire is forbidden in these parts">> ELSE <<>>)
    \o (IF offer > 0
        THEN <<"Travelers who leave offerings find easier paths">> ELSE <<>>)
    \o (IF create > 0
        THEN <<"Those who plant and tend are welcomed">> ELSE <<>>)

\* Faulty variant: the candidates are cut to ten without being sorted.
DominantEventsUnsorted(candidates) ==
    SubSeq(candidates, 1, Min(HistoryCap, Len(candidates)))

\* dominant_events.sort(key=intensity, reverse=True); dominant_events[:10]
DominantEvents(candidates) ==
    SubSeq(SortByIntensity(candidates), 1, Min(HistoryCap, Len(candidates)))

get_world_history_summary(locs, location_id, time_window_days, t, pick) ==
    IF location_id \notin DOMAIN locs THEN NoneResult
    ELSE
    LET location == locs[location_id]
        cutoff == t - time_window_days * SecondsPerDay
        harm == BehaviorTotal(location, cutoff, "harm")
        offer == BehaviorTotal(location, cutoff, "offer")
        create == BehaviorTotal(location, cutoff, "create")
    IN [location_id |-> location_id,
        time_window_days |-> time_window_days,
        dominant_events |-> DominantEvents(DominantCandidates(location, cutoff)),
        notable_actors |-> pick,
        mood |-> Mood(harm, offer, create),
        folklore_seeds |-> FolkloreSeeds(location, harm, offer, create)]

HistoryPicks(locs, location_id, time_window_days, t) ==
    IF location_id \notin DOMAIN locs THEN {{}}
    ELSE NotablePicks(NotableActors(locs[location_id],
                                    t - time_window_days * SecondsPerDay))

(***************************************************************************)
(* mcp/tools.py: the FastMCP tools                                         *)
(***************************************************************************)
NotFoundError(location_id) == [error |-> <<"Location", location_id, "not found">>]

IsError(r) == DOMAIN r = {"error"}

LocationQuery(location_id, include_traces, include_affordances) ==
    [location_id |-> location_id, include_traces |-> include_traces,
     include_affordances |-> include_affordances, decay_to_now |-> TRUE]

\* Faulty variant: the entries are keyed by the location's name.
export_world_state_keyed_by_name(locs, reg, t) ==
    [name \in {locs[id].name : id \in DOMAIN locs} |->
        LET id == CHOOSE i \in DOMAIN locs : locs[i].name = name
            state == get_location_state(locs, reg, LocationQuery(id, TRUE, TRUE), t)
        IN [location_id |-> state.location_id,
            name |-> state.name,
            description |-> state.description,
            valuation_profile |-> state.valuation_profile,
            saturation |-> state.saturation,
            traces |-> state.traces,
            affordances |-> state.affordances]]

\* EvenflowAdapter.export_world_state: one entry per stored location, made
\* from its get_location_state.
export_world_state(locs, reg, t) ==
    [id \in DOMAIN locs |->
        LET state == get_location_state(locs, reg, LocationQuery(id, TRUE, TRUE), t)
        IN [location_id |-> state.location_id,
            name |-> state.name,
            description |-> state.description,
            valuation_profile |-> state.valuation_profile,
            saturation |-> state.saturation,
            traces |-> [i \in DOMAIN state.traces |->
                          [key |-> state.traces[i].key,
                           channel |-> state.traces[i].channel,
                           accumulated |-> state.traces[i].accumulated,
                           decayed_value |-> state.traces[i].decayed_value,
                           event_count |-> state.traces[i].event_count,
                           is_scar |-> state.traces[i].is_scar]],
            affordances |-> [i \in DOMAIN state.affordances |->
                          [type |-> state.affordances[i].affordance_type,
                           enabled |-> state.affordances[i].enabled,
                           mechanical_handle |-> state.affordances[i].mechanical_handle]]]]

tool_get_location_state(locs, reg, location_id, include_traces, include_affordances, t) ==
    LET result == get_location_state(locs, reg,
                      LocationQuery(location_id, include_traces, include_affordances), t)
    IN IF IsNone(result) THEN NotFoundError(location_id) ELSE result

tool_compute_affinity(locs, location_id, actor_id, actor_tags, t) ==
    LET result == compute_affinity_for_actor(locs, location_id, actor_id, actor_tags, t)
    IN IF IsNone(result) THEN NotFoundError(location_id) ELSE result

\* Faulty variant: an unknown location yields a default (empty) consequence.
tool_predict_action_default(outcome, location_id) ==
    IF IsNone(outcome.result)
    THEN [location_id |-> location_id, triggered_affordances |-> <<>>,
          narrative_hints |-> <<>>]
    ELSE outcome.result

tool_predict_action(outcome, location_id) ==
    IF IsNone(outcome.result) THEN NotFoundError(location_id) ELSE outcome.result

tool_get_world_history(locs, location_id, time_window_days, t, pick) ==
    LET result == get_world_history_summary(locs, location_id, time_window_days, t, pick)
    IN IF IsNone(result) THEN NotFoundError(location_id) ELSE result

\* Faulty variant: the category is looked up before the exact event type.
tool_explain_valuation_category_first(locs, location_id, event_type) ==
    LET location == get_location(locs, location_id)
    IN IF IsNone(location) THEN NotFoundError(location_id)
       ELSE LET profile == location.valuation_profile
                category == Category(event_type)
            IN IF category \in DOMAIN profile
               THEN [event_type |-> event_type, weight |-> profile[category],
                     match_type |-> "category", category |-> category]
               ELSE IF event_type \in DOMAIN profile
                    THEN [event_type |-> event_type, weight |-> profile[event_type],
                          match_type |-> "exact"]
                    ELSE [event_type |-> event_type, weight |-> 0,
                          match_type |-> "default"]

tool_explain_valuation(locs, location_id, event_type) ==
    LET location == get_location(locs, location_id)
    IN IF IsNone(location) THEN NotFoundError(location_id)
       ELSE LET profile == location.valuation_profile
                category == Category(event_type)
            IN IF event_type \in DOMAIN profile
               THEN [event_type |-> event_type, weight |-> profile[event_type],
                     match_type |-> "exact"]
               ELSE IF category \in DOMAIN profile
                    THEN [event_type |-> event_type, weight |-> profile[category],
                          match_type |-> "category", category |-> category]
                    ELSE [event_type |-> event_type, weight |-> 0,
                          match_type |-> "default"]

InvalidChannelError(channel) ==
    [error |-> [text |-> "Invalid channel", channel |-> channel,
                use |-> <<"personal", "group", "behavior">>]]

\* The outcome is [exc, value]; an exception of the adapter propagates.
tool_query_traces(locs, location_id, actor_id, event_type, channel, min_intensity, limit, t) ==
    IF Truthy(channel) /\ channel \notin DecayChannel
    THEN [exc |-> None, value |-> <<InvalidChannelError(channel)>>]
    ELSE query_traces(locs,
            TraceQuery(location_id, actor_id, event_type,
                       IF Truthy(channel) THEN channel ELSE None,
                       min_intensity, limit), t)

(***************************************************************************)
(* aws/lambda_handler.py: the tools/call route for query_traces            *)
(***************************************************************************)
\* DecayChannel(arguments["channel"]) raises ValueError outside the enum.
handle_tool_call_query_traces(locs, arguments, t) ==
    IF Truthy(arguments.channel) /\ arguments.channel \notin DecayChannel
    THEN [exc |-> "ValueError", value |-> <<>>]
    ELSE query_traces(locs,
            TraceQuery(arguments.location_id, arguments.actor_id, arguments.event_type,
                       IF Truthy(arguments.channel) THEN arguments.channel ELSE None,
                       arguments.min_intensity, arguments.limit), t)

\* str(e) of the exception lambda_handler catches
ExceptionText(exc, arguments) ==
    IF exc = "ValueError"
    THEN [text |-> "is not a valid DecayChannel", mentions |-> {arguments.channel}]
    ELSE [text |-> "", mentions |-> {arguments.location_id}]

error_response(status_code, message) ==
    [statusCode |-> status_code, error |-> [code |-> -32600, message |-> message]]

lambda_handler_query_traces(locs, arguments, t) ==
    LET outcome == handle_tool_call_query_traces(locs, arguments, t)
    IN IF outcome.exc # None
       THEN error_response(500, ExceptionText(outcome.exc, arguments))
       ELSE [jsonrpc |-> "2.0", id |-> 1,
             result |-> [content |-> outcome.value]]

\* _handle_tool_call, explain_valuation branch; the text content is the
\* JSON object json.dumps writes.
handle_tool_call_explain_valuation(locs, arguments) ==
    LET location == get_location(locs, arguments.location_id)
    IN IF IsNone(location)
       THEN [content |-> <<[type |-> "text",
                            text |-> <<"Location not found:", arguments.location_id>>]>>]
       ELSE LET event_type == arguments.event_type
                profile == location.valuation_profile
                category == <<Head(event_type)>>
                result ==
                    IF event_type \in DOMAIN profile
                    THEN [event_type |-> event_type, weight |-> profile[event_type],
                          match_type |-> "exact"]
                    ELSE IF category \in DOMAIN profile
                         THEN [event_type |-> event_type, weight |-> profile[category],
                               match_type |-> "category", category |-> category]
                         ELSE [event_type |-> event_type, weight |-> 0,
                               match_type |-> "default"]
            IN [content |-> <<[type |-> "text", text |-> result]>>]

lambda_handler_tool_call(result) == [jsonrpc |-> "2.0", id |-> 1, result |-> result]

(***************************************************************************)
(* State                                                                   *)
(*   locations  EvenflowAdapter._locations                                 *)
(*   registry   the process-wide affordance registry                       *)
(*   now        time.time()                                                *)
(*   logged     number of events logged so far                             *)
(*   last       the most recent operation, its arguments and its outcome   *)
(*   pc, frame  position and locals of each in-flight prediction           *)
(*   calls      number of predictions started by the threads               *)
(***************************************************************************)
Threads == {"t1", "t2"}

Init ==
    /\ locations = load_yaml_locations
    /\ registry = [a \in AffordanceTypes |-> TRUE]
    /\ now = 0
    /\ logged = 0
    /\ last = [op |-> "idle"]
    /\ pc = [t \in Threads |-> "idle"]
    /\ frame = [t \in Threads |-> NoneResult]
    /\ calls = 0

LoggedActors == {[actor_id |-> "alice", actor_tags |-> {"elf"}],
                 [actor_id |-> "bob", actor_tags |-> {}]}
TagSets == {{}, {"elf"}}
ToggledTypes == {"pathing"}
WindowDays == {1, 30}
ClockSteps == {0, SecondsPerDay}

Idle == [op |-> "idle"]

\* The game logs an event at a location (world.affinity.events.log_event).
LogEvent ==
    /\ last = Idle
    /\ logged < MaxEvents
    /\ \E id \in LocationIds, who \in LoggedActors, event_type \in LoggedEventTypes,
          intensity \in LoggedIntensities :
          locations' = [locations EXCEPT ![id] =
                log_event(@, AffinityEvent(event_type, who.actor_id, who.actor_tags,
                                           id, intensity), now)]
    /\ logged' = logged + 1
    /\ UNCHANGED <<registry, now, last, pc, frame, calls>>

\* A day passes.
Tick ==
    /\ last = Idle
    /\ now < MaxTicks * SecondsPerDay
    /\ now' = now + SecondsPerDay
    /\ UNCHANGED <<locations, registry, logged, last, pc, frame, calls>>

\* An administrator switches an affordance type on or off process-wide.
AdminSetAffordance ==
    /\ last = Idle
    /\ \E a \in ToggledTypes, flag \in BOOLEAN :
          /\ registry[a] # flag
          /\ registry' = [registry EXCEPT ![a] = flag]
    /\ UNCHANGED <<locations, now, logged, last, pc, frame, calls>>

\* The response of the request in `last` is delivered; the server takes the next.
Respond ==
    /\ last # Idle
    /\ last' = Idle
    /\ UNCHANGED <<locations, registry, now, logged, pc, frame, calls>>

\* Faulty variant: the read stamps the location it reports.
GetLocationStateStamping ==
    /\ last = Idle
    /\ \E id \in AllLocationIds, include_traces \in BOOLEAN, include_affordances \in BOOLEAN :
          /\ last' = [op |-> "get_location_state", location_id |-> id,
                      include_traces |-> include_traces,
                      include_affordances |-> include_affordances,
                      out |-> tool_get_location_state(locations, registry, id,
                                  include_traces, include_affordances, now)]
          /\ locations' = IF id \in DOMAIN locations
                          THEN [locations EXCEPT ![id].last_tick = now + 1]
                          ELSE locations
    /\ UNCHANGED <<registry, now, logged, pc, frame, calls>>

GetLocationState ==
    /\ last = Idle
    /\ \E id \in AllLocationIds, include_traces \in BOOLEAN, include_affordances \in BOOLEAN :
          last' = [op |-> "get_location_state", location_id |-> id,
                   include_traces |-> include_traces,
                   include_affordances |-> include_affordances,
                   out |-> tool_get_location_state(locations, registry, id,
                               include_traces, include_affordances, now)]
    /\ UNCHANGED <<locations, registry, now, logged, pc, frame, calls>>

ComputeAffinity ==
    /\ last = Idle
    /\ \E id \in AllLocationIds, actor_id \in Actors, actor_tags \in TagSets :
          last' = [op |-> "compute_affinity", location_id |-> id,
                   actor_id |-> actor_id, actor_tags |-> actor_tags,
                   out |-> tool_compute_affinity(locations, id, actor_id, actor_tags, now)]
    /\ UNCHANGED <<locations, registry, now, logged, pc, frame, calls>>

PredictAction ==
    /\ last = Idle
    /\ \E id \in AllLocationIds, actor_id \in Actors, actor_tags \in TagSets,
          event_type \in PredictedEventTypes, intensity \in PredictedIntensities,
          dt \in ClockSteps :
          /\ now + dt <= MaxTicks * SecondsPerDay
          /\ LET prediction == ActionPrediction(actor_id, actor_tags, id, event_type,
                                                intensity)
                 outcome == predict_action_consequence(locations, prediction, now, now + dt)
             IN /\ locations' = outcome.locs
                /\ last' = [op |-> "predict_action", location_id |-> id,
                            prediction |-> prediction,
                            out |-> tool_predict_action(outcome, id)]
          /\ now' = now + dt
    /\ UNCHANGED <<registry, logged, pc, frame, calls>>

GetWorldHistory ==
    /\ last = Idle
    /\ \E id \in AllLocationIds, days \in WindowDays :
          \E pick \in HistoryPicks(locations, id, days, now) :
             last' = [op |-> "get_world_history", location_id |-> id,
                      time_window_days |-> days,
                      out |-> tool_get_world_history(locations, id, days, now, pick)]
    /\ UNCHANGED <<locations, registry, now, logged, pc, frame, calls>>

ExplainValuation ==
    /\ last = Idle
    /\ \E id \in AllLocationIds, event_type \in ExplainedEventTypes :
          last' = [op |-> "explain_valuation", entry |-> "fastmcp", location_id |-> id,
                   event_type |-> event_type,
                   out |-> tool_explain_valuation(locations, id, event_type)]
    /\ UNCHANGED <<locations, registry, now, logged, pc, frame, calls>>

Next ==
    \/ LogEvent
    \/ Tick
    \/ AdminSetAffordance
    \/ Respond
    \/ GetLocationState
    \/ ComputeAffinity
    \/ PredictAction
    \/ GetWorldHistory
    \/ ExplainValuation

Spec == Init /\ [][Next]_vars

(***************************************************************************)
(* The query_traces entry points                                           *)
(***************************************************************************)
DefaultLimit == 100
LocationFilters == {None} \cup AllLocationIds
ActorFilters == {None, "alice"}
EventTypeFilters == {NoEventType, HarmFire}
ChannelArguments == {None, "personal", "group", "behavior", "mood"}
MinIntensities == {0, QuarterPowers[3]}
LimitValues == -1 .. MaxLimit

QueryTraces ==
    /\ last = Idle
    /\ \E location_id \in LocationFilters, actor_id \in ActorFilters,
          event_type \in EventTypeFilters, channel \in ChannelArguments,
          min_intensity \in MinIntensities, limit \in LimitValues :
          last' = [op |-> "query_traces", entry |-> "fastmcp",
                   query |-> TraceQuery(location_id, actor_id, event_type, channel,
                                        min_intensity, limit),
                   out |-> tool_query_traces(locations, location_id, actor_id, event_type,
                                             channel, min_intensity, limit, now)]
    /\ UNCHANGED <<locations, registry, now, logged, pc, frame, calls>>

LambdaQueryTraces ==
    /\ last = Idle
    /\ \E location_id \in LocationFilters, channel \in ChannelArguments :
          LET arguments == TraceQuery(location_id, None, NoEventType, channel, 0,
                                      DefaultLimit)
          IN last' = [op |-> "query_traces", entry |-> "lambda",
                      query |-> arguments,
                      out |-> lambda_handler_query_traces(locations, arguments, now)]
    /\ UNCHANGED <<locations, registry, now, logged, pc, frame, calls>>

QueryNext ==
    \/ LogEvent
    \/ Tick
    \/ Respond
    \/ QueryTraces
    \/ LambdaQueryTraces

QuerySpec == Init /\ [][QueryNext]_vars

(***************************************************************************)
(* Concurrent tool calls: predict_action_consequence one shared access at  *)
(* a time, interleaved with other predictions and with whole reads.  The   *)
(* MCP server has no write path, so nothing is logged here and the         *)
(* committed state of every location is the loaded one.                    *)
(***************************************************************************)
ConcurrentPredictions ==
    {ActionPrediction("alice", {"elf"}, id, event_type, Milli) :
        id \in {"whispering_woods", UnknownLocation},
        event_type \in {HarmFire, OfferGift}}

Frame(prediction, location) ==
    [prediction |-> prediction, location |-> location,
     affinity_before |-> NoneResult, temp_location |-> NoneResult,
     original |-> NoneResult, affinity_after |-> NoneResult]

\* location = self._locations.get(prediction.location_id); if not location: return None
PredictCall(t) ==
    /\ pc[t] = "idle"
    /\ calls < MaxPredictions
    /\ \E prediction \in ConcurrentPredictions :
          LET location == get_location(locations, prediction.location_id)
          IN /\ frame' = [frame EXCEPT ![t] = Frame(prediction, location)]
             /\ pc' = [pc EXCEPT ![t] = IF IsNone(location) THEN "return" ELSE "before"]
    /\ calls' = calls + 1
    /\ UNCHANGED <<locations, registry, now, logged, last>>

\* affinity_before = self.compute_affinity_for_actor(...)
PredictBefore(t) ==
    /\ pc[t] = "before"
    /\ frame' = [frame EXCEPT ![t].affinity_before =
            compute_affinity_for_actor(locations, frame[t].prediction.location_id,
                frame[t].prediction.actor_id, frame[t].prediction.actor_tags, now)]
    /\ pc' = [pc EXCEPT ![t] = "clone"]
    /\ UNCHANGED <<locations, registry, now, logged, last, calls>>

\* temp_location = deepcopy(location); log_event(temp_location, event);
\* original = self._locations.get(prediction.location_id)
PredictClone(t) ==
    /\ pc[t] = "clone"
    /\ frame' = [frame EXCEPT
            ![t].temp_location = predict_clone(frame[t].location, frame[t].prediction, now),
            ![t].original = get_location(locations, frame[t].prediction.location_id)]
    /\ pc' = [pc EXCEPT ![t] = "swap"]
    /\ UNCHANGED <<locations, registry, now, logged, last, calls>>

\* self._locations[prediction.location_id] = temp_location
PredictSwap(t) ==
    /\ pc[t] = "swap"
    /\ locations' = predict_swap(locations, frame[t].prediction.location_id,
                                 frame[t].temp_location)
    /\ pc' = [pc EXCEPT ![t] = "after"]
    /\ UNCHANGED <<registry, now, logged, last, frame, calls>>

\* affinity_after = self.compute_affinity_for_actor(...)
PredictAfter(t) ==
    /\ pc[t] = "after"
    /\ frame' = [frame EXCEPT ![t].affinity_after =
            compute_affinity_for_actor(locations, frame[t].prediction.location_id,
                frame[t].prediction.actor_id, frame[t].prediction.actor_tags, now)]
    /\ pc' = [pc EXCEPT ![t] = "restore"]
    /\ UNCHANGED <<locations, registry, now, logged, last, calls>>

\* if original: self._locations[prediction.location_id] = original
PredictRestore(t) ==
    /\ pc[t] = "restore"
    /\ locations' = predict_restore(locations, frame[t].prediction.location_id,
                                    frame[t].original)
    /\ pc' = [pc EXCEPT ![t] = "return"]
    /\ UNCHANGED <<registry, now, logged, last, frame, calls>>

\* return ActionConsequence(...) or None
PredictReturn(t) ==
    /\ pc[t] = "return"
    /\ pc' = [pc EXCEPT ![t] = "idle"]
    /\ frame' = [frame EXCEPT ![t] = NoneResult]
    /\ UNCHANGED <<locations, registry, now, logged, last, calls>>

ConcNext ==
    \/ \E t \in Threads : PredictCall(t)
    \/ \E t \in Threads : PredictBefore(t)
    \/ \E t \in Threads : PredictClone(t)
    \/ \E t \in Threads : PredictSwap(t)
    \/ \E t \in Threads : PredictAfter(t)
    \/ \E t \in Threads : PredictRestore(t)
    \/ \E t \in Threads : PredictReturn(t)
    \/ GetLocationState
    \/ ComputeAffinity
    \/ Respond

ConcSpec == Init /\ [][ConcNext]_vars

(***************************************************************************)
(* explain_valuation over a family of valuation profiles, on both entry    *)
(* points                                                                  *)
(***************************************************************************)
\* Every profile on the keys harm, harm.fire and offer with weights -0.8, 0.6.
Profiles ==
    UNION {[keys -> {-800, 600}] : keys \in SUBSET {<<"harm">>, HarmFire, <<"offer">>}}

ValuationInit ==
    /\ \E profile \in Profiles :
          locations = [load_yaml_locations EXCEPT
                          !["whispering_woods"].valuation_profile = profile]
    /\ registry = [a \in AffordanceTypes |-> TRUE]
    /\ now = 0
    /\ logged = 0
    /\ last = Idle
    /\ pc = [t \in Threads |-> "idle"]
    /\ frame = [t \in Threads |-> NoneResult]
    /\ calls = 0

LambdaExplainValuation ==
    /\ last = Idle
    /\ \E id \in AllLocationIds, event_type \in ExplainedEventTypes :
          last' = [op |-> "explain_valuation", entry |-> "lambda", location_id |-> id,
                   event_type |-> event_type,
                   out |-> lambda_handler_tool_call(
                              handle_tool_call_explain_valuation(locations,
                                 [location_id |-> id, event_type |-> event_type]))]
    /\ UNCHANGED <<locations, registry, now, logged, pc, frame, calls>>

ValuationNext ==
    \/ ExplainValuation
    \/ LambdaExplainValuation
    \/ Respond

ValuationSpec == ValuationInit /\ [][ValuationNext]_vars

(***************************************************************************)
(* get_world_history_summary over stores built by logging: a grid of       *)
(* behavior totals, and crowds of more actors than the output caps hold    *)
(***************************************************************************)
MaxCrowd == 12

CrowdActors ==
    <<"a01", "a02", "a03", "a04", "a05", "a06", "a07", "a08", "a09", "a10", "a11", "a12",
      "a13", "a14">>

CrowdIntensity(pattern, i) ==
    CASE pattern = "rising" -> i * 50
      [] pattern = "falling" -> (MaxCrowd + 2 - i) * 50
      [] OTHER -> ((i % 3) + 1) * 100

HistoryClocks == {0, 2 * SecondsPerDay}

\* Each entry is an event and the time it was logged at.
RECURSIVE LogAll(_, _)
LogAll(location, entries) ==
    IF entries = <<>> THEN location
    ELSE LogAll(log_event(location, Head(entries).event, Head(entries).t), Tail(entries))

\* Actor i of the crowd harms with fire; odd actors did so before the clock
\* advanced; the first actor also left a gift.
CrowdEntries(n, pattern, t) ==
    [i \in 1..n |->
        [event |-> AffinityEvent(HarmFire, CrowdActors[i], {}, "whispering_woods",
                                 CrowdIntensity(pattern, i)),
         t |-> IF i % 2 = 1 THEN 0 ELSE t]]
    \o <<[event |-> AffinityEvent(OfferGift, CrowdActors[1], {}, "whispering_woods",
                                  (7 * Milli) \div 10),
          t |-> t]>>

\* One actor's events of four types, those of intensity 0 left out.
BehaviorEntries(fire, sword, offer, create, t) ==
    LET entry(event_type, intensity) ==
            IF intensity = 0 THEN <<>>
            ELSE <<[event |-> AffinityEvent(event_type, "alice", {"elf"},
                                            "whispering_woods", intensity),
                    t |-> t]>>
    IN entry(HarmFire, fire) \o entry(HarmSword, sword) \o entry(OfferGift, offer)
       \o entry(<<"create", "garden">>, create)

HistoryCases ==
    {CrowdEntries(n, pattern, t) :
        n \in (MaxCrowd - 3)..MaxCrowd, pattern \in {"rising", "falling", "ties"},
        t \in HistoryClocks}
    \cup {BehaviorEntries(fire, sword, offer, create, 0) :
            fire \in {0, Milli \div 2, Milli \div 2 + 1, Milli - 1, Milli},
            sword \in {0, Milli \div 2},
            offer \in {0, (3 * Milli) \div 10, (3 * Milli) \div 10 + 1,
                       Milli \div 2, Milli \div 2 + 1},
            create \in {0, (3 * Milli) \div 10, (3 * Milli) \div 10 + 1}}

HistoryInit ==
    /\ \E entries \in HistoryCases :
          /\ locations = [load_yaml_locations EXCEPT
                             !["whispering_woods"] = LogAll(@, entries)]
          /\ now = IF entries = <<>> THEN 0 ELSE entries[Len(entries)].t
    /\ registry = [a \in AffordanceTypes |-> TRUE]
    /\ logged = 0
    /\ last = Idle
    /\ pc = [t \in Threads |-> "idle"]
    /\ frame = [t \in Threads |-> NoneResult]
    /\ calls = 0

HistoryNext ==
    \/ GetWorldHistory
    \/ Respond

HistorySpec == HistoryInit /\ [][HistoryNext]_vars

(***************************************************************************)
(* get_location_state over locations whose affordances are cooling down    *)
(***************************************************************************)
CooldownSeconds == 3600

\* A triggered affordance cools down until trigger time + cooldown_seconds.
CooldownStamps == {CooldownSeconds \div 2, CooldownSeconds, SecondsPerDay + CooldownSeconds}

CooldownClocks == {0, CooldownSeconds \div 2, CooldownSeconds, 2 * CooldownSeconds}

CooldownMaps ==
    UNION {[types -> CooldownStamps] : types \in SUBSET AffordanceTypes}

CooldownInit ==
    /\ \E cooldowns \in CooldownMaps :
          locations = [load_yaml_locations EXCEPT
                          !["whispering_woods"].cooldowns = cooldowns]
    /\ now \in CooldownClocks
    /\ registry = [a \in AffordanceTypes |-> TRUE]
    /\ logged = 0
    /\ last = Idle
    /\ pc = [t \in Threads |-> "idle"]
    /\ frame = [t \in Threads |-> NoneResult]
    /\ calls = 0

CooldownNext ==
    \/ AdminSetAffordance
    \/ GetLocationState
    \/ Respond

CooldownSpec == CooldownInit /\ [][CooldownNext]_vars

(***************************************************************************)
(* threshold_label=get_threshold_label(total) over pairs of totals         *)
(***************************************************************************)
\* Multiples of 0.1 between -1.0 and 1.0 and their neighbours.
LabelTotals ==
    {total \in -Milli..Milli :
        total % (Milli \div 10) \in {0, 1, (Milli \div 10) - 1}}

ThresholdLabels ==
    /\ last = Idle
    /\ \E lower \in LabelTotals, upper \in LabelTotals :
          last' = [op |-> "threshold_label", totals |-> <<lower, upper>>,
                   out |-> <<get_threshold_label(lower), get_threshold_label(upper)>>]
    /\ UNCHANGED <<locations, registry, now, logged, pc, frame, calls>>

LabelNext ==
    \/ ThresholdLabels
    \/ Respond

LabelSpec == Init /\ [][LabelNext]_vars

(***************************************************************************)
(* The read operations of the adapter between logged events                *)
(***************************************************************************)
ListLocations ==
    /\ last = Idle
    /\ last' = [op |-> "list_locations", out |-> list_locations(locations)]
    /\ UNCHANGED <<locations, registry, now, logged, pc, frame, calls>>

GetAffordanceRegistry ==
    /\ last = Idle
    /\ last' = [op |-> "get_affordance_registry", out |-> admin_get_registry(registry)]
    /\ UNCHANGED <<locations, registry, now, logged, pc, frame, calls>>

ExportWorldState ==
    /\ last = Idle
    /\ last' = [op |-> "export_world_state",
                out |-> export_world_state(locations, registry, now)]
    /\ UNCHANGED <<locations, registry, now, logged, pc, frame, calls>>

ReadNext ==
    \/ LogEvent
    \/ Tick
    \/ Respond
    \/ GetLocationState
    \/ ListLocations
    \/ ComputeAffinity
    \/ QueryTraces
    \/ GetWorldHistory
    \/ GetAffordanceRegistry
    \/ ExplainValuation
    \/ ExportWorldState

ReadSpec == Init /\ [][ReadNext]_vars

(***************************************************************************)
(* predict_action_consequence over locations that already remember the     *)
(* actor: one earlier event (the next one makes a scar) or two strong ones *)
(* (the next one reaches the channel capacity)                             *)
(***************************************************************************)
PredictCases ==
    {[i \in 1..n |->
        [event |-> AffinityEvent(event_type, "alice", {"elf"}, "whispering_woods",
                                 intensity),
         t |-> 0]] :
        n \in 0..2, event_type \in LoggedEventTypes,
        intensity \in {Milli, (18 * Milli) \div 10}}

PredictInit ==
    /\ \E entries \in PredictCases :
          locations = [load_yaml_locations EXCEPT
                          !["whispering_woods"] = LogAll(@, entries)]
    /\ now = 0
    /\ registry = [a \in AffordanceTypes |-> TRUE]
    /\ logged = 0
    /\ last = Idle
    /\ pc = [t \in Threads |-> "idle"]
    /\ frame = [t \in Threads |-> NoneResult]
    /\ calls = 0

PredictNext ==
    \/ Tick
    \/ PredictAction
    \/ Respond

PredictSpec == PredictInit /\ [][PredictNext]_vars

(***************************************************************************)
(* Start-up: the files of world/locations are loaded in the order the      *)
(* directory lists them, which is any order; then the world is listed and  *)
(* exported.  While loading, `last` holds the files found, those still to  *)
(* be read, and the warnings printed.                                      *)
(***************************************************************************)
YamlFiles ==
    {[file |-> "woods.yaml",
      data |-> [location_id |-> "whispering_woods", name |-> "Whispering Woods",
                valuation_profile |-> WoodsProfile,
                affordances |->
                    <<[type |-> "pathing", mechanical_handle |-> "room.pathing",
                       tells |-> [hostile |-> <<"the woods creak">>]],
                      [type |-> "spawn", enabled |-> FALSE, cooldown_seconds |-> 60]>>]],
     [file |-> "ruins.yaml",
      data |-> [location_id |-> "sunken_ruins", name |-> "Sunken Ruins"]],
     [file |-> "woods_old.yaml",
      data |-> [location_id |-> "whispering_woods", name |-> "Old Woods",
                description |-> "before the fire"]],
     [file |-> "no_id.yaml", data |-> [name |-> "Nameless"]],
     [file |-> "no_name.yaml",
      data |-> [location_id |-> "sunken_ruins", valuation_profile |-> RuinsProfile]],
     [file |-> "no_type.yaml",
      data |-> [location_id |-> "whispering_woods", name |-> "Broken Woods",
                affordances |-> <<[type |-> "weather"], [enabled |-> TRUE]>>]],
     [file |-> "empty.yaml", data |-> NoneResult]}

LoadInit ==
    /\ locations = <<>>
    /\ \E files \in SUBSET YamlFiles :
          last = [op |-> "load_yaml_locations", files |-> files, pending |-> files,
                  warnings |-> {}]
    /\ registry = [a \in AffordanceTypes |-> TRUE]
    /\ now = 0
    /\ logged = 0
    /\ pc = [t \in Threads |-> "idle"]
    /\ frame = [t \in Threads |-> NoneResult]
    /\ calls = 0

\* for yaml_file in locations_dir.glob("*.yaml"): one file
LoadFile ==
    /\ last.op = "load_yaml_locations"
    /\ \E file \in last.pending :
          LET outcome == load_yaml_file(locations, file)
          IN /\ locations' = outcome.locs
             /\ last' = [last EXCEPT !.pending = @ \ {file},
                                     !.warnings = @ \cup outcome.warnings]
    /\ UNCHANGED <<registry, now, logged, pc, frame, calls>>

\* The loop is over: the adapter is constructed and the server takes requests.
LoadDone ==
    /\ last.op = "load_yaml_locations"
    /\ last.pending = {}
    /\ last' = Idle
    /\ UNCHANGED <<locations, registry, now, logged, pc, frame, calls>>

LoadNext ==
    \/ LoadFile
    \/ LoadDone
    \/ ListLocations
    \/ ExportWorldState
    \/ Respond

LoadSpec == LoadInit /\ [][LoadNext]_vars

(***************************************************************************)
(* aws/lambda_handler.py: lambda_handler and the handlers it routes to.    *)
(* A method, a tool name and a uri are the tuples of their segments:       *)
(* "tools/call" is <<"tools", "call">>, "location://whispering_woods" is   *)
(* <<"location", "whispering_woods">>.  A body that is a str is the record *)
(* [str, json]: json holds the value the text is JSON for, or nothing when *)
(* the text is not JSON.  A JSON array is the record [list].  The text     *)
(* json.dumps writes is the object it writes; "{}" is the empty object.    *)
(***************************************************************************)
JsonText(value) == [str |-> TRUE, json |-> <<value>>]

NotJsonText == [str |-> TRUE, json |-> <<>>]

EmptyObject == <<>>

\* json.loads(body): the outcome is [exc, value]
json_loads(body) ==
    IF body.json = <<>>
    THEN [exc |-> "JSONDecodeError", value |-> NoneResult]
    ELSE [exc |-> None, value |-> body.json[1]]

\* method.startswith("tools/")
StartsWith(method, first) == Len(method) >= 2 /\ method[1] = first

\* method.replace("tools/call/", "")
ReplaceToolsCall(method) ==
    IF Len(method) >= 3 /\ SubSeq(method, 1, 2) = <<"tools", "call">>
    THEN SubSeq(method, 3, Len(method))
    ELSE method

handle_initialize ==
    [protocolVersion |-> "2024-11-05",
     capabilities |-> [tools |-> [listChanged |-> FALSE],
                       resources |-> [listChanged |-> FALSE, subscribe |-> FALSE]],
     serverInfo |-> [name |-> "evenflow-mcp", version |-> "0.1.0"]]

ToolNames ==
    <<"get_location_state", "list_locations", "compute_affinity", "query_traces",
      "predict_action", "get_world_history", "get_affordance_registry",
      "export_world_state", "explain_valuation">>

handle_list_tools == [tools |-> [i \in DOMAIN ToolNames |-> [name |-> ToolNames[i]]]]

handle_list_resources ==
    [resources |->
        <<[uri |-> <<"location", "{location_id}">>, name |-> "Location State"],
          [uri |-> <<"affordance", "registry">>, name |-> "Affordance Registry"],
          [uri |-> <<"world", "state">>, name |-> "World State"],
          [uri |-> <<"config", "affinity">>, name |-> "Affinity Config"]>>]

TextContent(text) == [content |-> <<[type |-> "text", text |-> text]>>]

\* _handle_tool_call; the outcome is [exc, value].  arguments["location_id"]
\* and the like raise KeyError when the argument is absent.  The branches of
\* predict_action and get_world_history are not taken by the requests of
\* this specification and are left out.
handle_tool_call(method, params, locs, reg, t) ==
    LET tool_name == DictGet(params, "name", ReplaceToolsCall(method))
        arguments == DictGet(params, "arguments", <<>>)
        raise(exc) == [exc |-> exc, value |-> NoneResult]
        return(value) == [exc |-> None, value |-> value]
        not_found == TextContent(<<"Location not found:", arguments.location_id>>)
    IN IF tool_name = <<"get_location_state">>
       THEN IF "location_id" \notin DOMAIN arguments THEN raise("KeyError")
            ELSE LET result ==
                        get_location_state(locs, reg,
                            LocationQuery(arguments.location_id,
                                          DictGet(arguments, "include_traces", TRUE),
                                          DictGet(arguments, "include_affordances", TRUE)), t)
                 IN return(IF IsNone(result) THEN not_found ELSE TextContent(result))
       ELSE IF tool_name = <<"list_locations">>
       THEN return(TextContent(list_locations(locs)))
       ELSE IF tool_name = <<"compute_affinity">>
       THEN IF ~({"location_id", "actor_id"} \subseteq DOMAIN arguments)
            THEN raise("KeyError")
            ELSE LET result ==
                        compute_affinity_for_actor(locs, arguments.location_id,
                            arguments.actor_id, DictGet(arguments, "actor_tags", {}), t)
                 IN return(IF IsNone(result) THEN not_found ELSE TextContent(result))
       ELSE IF tool_name = <<"query_traces">>
       THEN LET outcome ==
                    handle_tool_call_query_traces(locs,
                        TraceQuery(DictGet(arguments, "location_id", None),
                                   DictGet(arguments, "actor_id", None),
                                   DictGet(arguments, "event_type", NoEventType),
                                   DictGet(arguments, "channel", None),
                                   DictGet(arguments, "min_intensity", 0),
                                   DictGet(arguments, "limit", DefaultLimit)), t)
            IN IF outcome.exc # None THEN raise(outcome.exc)
               ELSE return(TextContent(outcome.value))
       ELSE IF tool_name = <<"get_affordance_registry">>
       THEN return(TextContent(admin_get_registry(reg)))
       ELSE IF tool_name = <<"export_world_state">>
       THEN return(TextContent(export_world_state(locs, reg, t)))
       ELSE IF tool_name = <<"explain_valuation">>
       THEN IF ~({"location_id", "event_type"} \subseteq DOMAIN arguments)
            THEN raise("KeyError")
            ELSE return(handle_tool_call_explain_valuation(locs, arguments))
       ELSE return([content |-> <<[type |-> "text",
                                   text |-> <<"Unknown tool:", tool_name>>]>>,
                    isError |-> TRUE])

ResourceContents(uri, mime_type, text) ==
    [contents |-> <<[uri |-> uri, mimeType |-> mime_type, text |-> text]>>]

\* _handle_resource_read
handle_resource_read(method, params, locs, reg, t) ==
    LET uri == DictGet(params, "uri", <<>>)
    IN IF uri # <<>> /\ uri[1] = "location"
       THEN LET result == get_location_state(locs, reg,
                              LocationQuery(uri[2], TRUE, TRUE), t)
            IN IF IsNone(result)
               THEN ResourceContents(uri, "application/json", EmptyObject)
               ELSE ResourceContents(uri, "application/json", result)
       ELSE IF uri = <<"affordance", "registry">>
       THEN ResourceContents(uri, "application/json", admin_get_registry(reg))
       ELSE IF uri = <<"world", "state">>
       THEN ResourceContents(uri, "application/json", export_world_state(locs, reg, t))
       ELSE IF uri = <<"config", "affinity">>
       THEN ResourceContents(uri, "application/json",
                [half_lives |-> [location |-> half_lives],
                 channel_weights |-> channel_weights])
       ELSE ResourceContents(uri, "text/plain", <<"Unknown resource:", uri>>)

\* Faulty variant: every response is wrapped for API Gateway.
lambda_format_always_wrapped(event, response_body) ==
    [statusCode |-> 200, body |-> response_body]

\* if "requestContext" in event: {"statusCode": 200, ..., "body": ...}
lambda_format(event, response_body) ==
    IF "requestContext" \in DOMAIN event
    THEN [statusCode |-> 200, body |-> response_body]
    ELSE response_body

\* The try block: the outcome is [exc, unknown, value].  body.get raises
\* AttributeError when the body is not a dict.
lambda_route(body, locs, reg, t) ==
    IF "list" \in DOMAIN body \/ body = NoneResult
    THEN [exc |-> "AttributeError", unknown |-> FALSE, value |-> NoneResult]
    ELSE LET method == DictGet(body, "method", <<>>)
             params == DictGet(body, "params", <<>>)
             request_id == DictGet(body, "id", 1)
             routed(result) ==
                [exc |-> None, unknown |-> FALSE,
                 value |-> [jsonrpc |-> "2.0", id |-> request_id, result |-> result]]
         IN IF StartsWith(method, "tools")
            THEN LET outcome == handle_tool_call(method, params, locs, reg, t)
                 IN IF outcome.exc # None
                    THEN [exc |-> outcome.exc, unknown |-> FALSE, value |-> NoneResult]
                    ELSE routed(outcome.value)
            ELSE IF StartsWith(method, "resources")
            THEN routed(handle_resource_read(method, params, locs, reg, t))
            ELSE IF method = <<"initialize">> THEN routed(handle_initialize)
            ELSE IF method = <<"tools", "list">> THEN routed(handle_list_tools)
            ELSE IF method = <<"resources", "list">> THEN routed(handle_list_resources)
            ELSE [exc |-> None, unknown |-> TRUE, value |-> method]

lambda_handler(event, locs, reg, t) ==
    LET body == DictGet(event, "body", event)
        loaded == IF "str" \in DOMAIN body THEN json_loads(body)
                  ELSE [exc |-> None, value |-> body]
    IN IF loaded.exc # None
       THEN error_response(400, [text |-> "Invalid JSON in request body", mentions |-> {}])
       ELSE LET outcome == lambda_route(loaded.value, locs, reg, t)
            IN IF outcome.exc # None
               THEN error_response(500, [text |-> outcome.exc, mentions |-> {}])
               ELSE IF outcome.unknown
                    THEN error_response(400, [text |-> "Unknown method",
                                              mentions |-> {outcome.value}])
                    ELSE lambda_format(event, outcome.value)

\* mcp/resources.py: the location://{location_id} resource of the FastMCP server
get_location_resource(locs, reg, location_id, t) ==
    LET result == get_location_state(locs, reg, LocationQuery(location_id, TRUE, TRUE), t)
    IN IF IsNone(result) THEN NotFoundError(location_id) ELSE result

Request(method, params) == ("method" :> method) @@ ("params" :> params)

ToolCall(name, arguments) ==
    Request(<<"tools", "call">>, ("name" :> <<name>>) @@ ("arguments" :> arguments))

LambdaRequests ==
    {("method" :> method) :
        method \in {<<"tools", "list">>, <<"resources", "list">>, <<"initialize">>,
                    <<"ping">>, <<"tools">>}}
    \cup {("params" :> <<>>), [list |-> <<>>]}
    \cup {ToolCall("explain_valuation",
                   ("location_id" :> id) @@ ("event_type" :> HarmFire)) :
            id \in {"whispering_woods", UnknownLocation}}
    \cup {ToolCall("explain_valuation", ("event_type" :> HarmFire)),
          ToolCall("get_location_state", ("location_id" :> "sunken_ruins")),
          ToolCall("get_location_state", ("location_id" :> UnknownLocation)),
          ToolCall("compute_affinity",
                   ("location_id" :> "whispering_woods") @@ ("actor_id" :> "alice")),
          ToolCall("query_traces", ("channel" :> "mood")),
          ToolCall("query_traces", ("channel" :> "behavior")),
          ToolCall("query_traces", ("location_id" :> UnknownLocation)),
          ToolCall("get_affordance_registry", <<>>),
          ToolCall("export_world_state", <<>>),
          ToolCall("teleport", <<>>),
          ("method" :> <<"tools", "call", "list_locations">>)}
    \cup {Request(<<"resources", "read">>, ("uri" :> uri)) :
            uri \in {<<"location", "whispering_woods">>, <<"location", UnknownLocation>>,
                     <<"affordance", "registry">>, <<"world", "state">>,
                     <<"config", "affinity">>, <<"weather", "today">>}}
    \cup {Request(<<"resources", "read">>, <<>>)}

\* Direct invocation, API Gateway with a text body, a text body without
\* requestContext, and a body already parsed; with and without an id.
LambdaEvents ==
    LET bodies == LambdaRequests
                  \cup {request @@ ("id" :> 7) :
                          request \in {r \in LambdaRequests : "list" \notin DOMAIN r}}
    IN bodies
       \cup {[body |-> JsonText(b), requestContext |-> "prod"] : b \in bodies}
       \cup {[body |-> JsonText(b)] : b \in bodies}
       \cup {[body |-> b, requestContext |-> "prod"] : b \in bodies}
       \cup {[body |-> NotJsonText, requestContext |-> "prod"], [body |-> NotJsonText]}

LambdaRequest ==
    /\ last = Idle
    /\ \E event \in LambdaEvents :
          last' = [op |-> "lambda_handler", entry |-> "lambda", event |-> event,
                   out |-> lambda_handler(event, locations, registry, now)]
    /\ UNCHANGED <<locations, registry, now, logged, pc, frame, calls>>

ReadLocationResource ==
    /\ last = Idle
    /\ \E id \in AllLocationIds :
          last' = [op |-> "location_resource", entry |-> "fastmcp", location_id |-> id,
                   out |-> get_location_resource(locations, registry, id, now)]
    /\ UNCHANGED <<locations, registry, now, logged, pc, frame, calls>>

LambdaNext ==
    \/ LogEvent
    \/ Respond
    \/ LambdaRequest
    \/ ReadLocationResource

LambdaSpec == Init /\ [][LambdaNext]_vars

(***************************************************************************)
(* predict_action on a world one of whose valuation weights is not a       *)
(* number, with intensities that may not be numbers                        *)
(***************************************************************************)
FailInit ==
    /\ locations = [load_yaml_locations EXCEPT
                       !["whispering_woods"].valuation_profile =
                           (HarmSword :> NotANumber) @@ WoodsProfile]
    /\ registry = [a \in AffordanceTypes |-> TRUE]
    /\ now = 0
    /\ logged = 0
    /\ last = Idle
    /\ pc = [t \in Threads |-> "idle"]
    /\ frame = [t \in Threads |-> NoneResult]
    /\ calls = 0

PredictActionRaising ==
    /\ last = Idle
    /\ \E id \in AllLocationIds, actor_id \in Actors, actor_tags \in TagSets,
          event_type \in PredictedEventTypes,
          intensity \in PredictedIntensities \cup {NotANumber} :
          LET prediction == ActionPrediction(actor_id, actor_tags, id, event_type, intensity)
              outcome == predict_action_consequence_raising(locations, prediction, now, now)
          IN /\ locations' = outcome.locs
             /\ last' = [op |-> "predict_action", location_id |-> id,
                         prediction |-> prediction, exc |-> outcome.exc,
                         out |-> IF outcome.exc # None THEN NoneResult
                                 ELSE tool_predict_action(outcome, id)]
    /\ UNCHANGED <<registry, now, logged, pc, frame, calls>>

FailNext ==
    \/ LogEvent
    \/ PredictActionRaising
    \/ Respond

FailSpec == FailInit /\ [][FailNext]_vars

(***************************************************************************)
(* Properties                                                              *)
(***************************************************************************)
LocationScopedOps ==
    {"get_location_state", "compute_affinity", "predict_action", "get_world_history",
     "explain_valuation"}

PredictionAnswered == last.op = "predict_action" /\ ~IsError(last.out)

\* C1: a prediction that returns leaves the store exactly as it found it:
\* the same location ids, and for each the same traces, saturation,
\* cooldowns and last_tick.
C1_PredictionLeavesStore ==
    [][last'.op = "predict_action" => locations' = locations]_vars

\* C1 witness: a prediction on a location that already holds traces returned
\* an affinity_after different from affinity_before.
C1_Witness ==
    /\ PredictionAnswered
    /\ last.out.affinity_after.total # last.out.affinity_before.total
    /\ locations[last.location_id].personal_traces # <<>>

\* C2: every read that runs while predictions are in flight returns what the
\* committed (loaded, never written) state of the location gives.
C2_ReadsSeeCommittedState ==
    last.op = "compute_affinity" =>
        last.out = tool_compute_affinity(load_yaml_locations, last.location_id,
                                         last.actor_id, last.actor_tags, now)

EnabledAffordances(location) ==
    SelectSeq(location.affordances, LAMBDA aff : aff.enabled)

EnabledWithHostileTell(location) ==
    SelectSeq(location.affordances, LAMBDA aff : aff.enabled /\ aff.tells_hostile # <<>>)

EnabledWithFavorableTell(location) ==
    SelectSeq(location.affordances, LAMBDA aff : aff.enabled /\ aff.tells_favorable # <<>>)

\* C3: hostile or wary: the enabled affordance types in configuration order
\* are triggered and the first hostile tell of each enabled affordance that
\* has one is a hint; warm or favorable: nothing is triggered and the first
\* favorable tells are the hints; neutral: both lists are empty.  Enabled is
\* the location's own AffordanceConfig.enabled flag.
C3_TriggerAsymmetry ==
    PredictionAnswered =>
        LET location == locations[last.location_id]
            label == last.out.affinity_after.threshold_label
            triggered == last.out.triggered_affordances
            hints == last.out.narrative_hints
        IN /\ label \in {"hostile", "wary"} =>
                /\ triggered = [i \in DOMAIN EnabledAffordances(location) |->
                                  EnabledAffordances(location)[i].affordance_type]
                /\ hints = [i \in DOMAIN EnabledWithHostileTell(location) |->
                              EnabledWithHostileTell(location)[i].tells_hostile[1]]
           /\ label \in {"warm", "favorable"} =>
                /\ triggered = <<>>
                /\ hints = [i \in DOMAIN EnabledWithFavorableTell(location) |->
                              EnabledWithFavorableTell(location)[i].tells_favorable[1]]
           /\ label = "neutral" => triggered = <<>> /\ hints = <<>>

\* C3 witness: a prediction landing in "favorable" at the woods reports no
\* triggered affordance and the favorable tells of its two enabled affordances.
C3_Witness ==
    /\ PredictionAnswered
    /\ last.out.affinity_after.threshold_label = "favorable"
    /\ last.out.triggered_affordances = <<>>
    /\ last.out.narrative_hints = <<"the woods hum", "a warm breeze">>

\* C4: a prediction never reports as triggered an affordance whose type is
\* switched off in the global registry.
C4_TriggeredRespectsRegistry ==
    PredictionAnswered =>
        \A i \in DOMAIN last.out.triggered_affordances :
            is_affordance_enabled(registry, last.out.triggered_affordances[i])

\* C5: get_location_state reports enabled = AffordanceConfig.enabled and the
\* registry's flag for the type, for every affordance of the location.
C5_EnabledIsConjunction ==
    (last.op = "get_location_state" /\ ~IsError(last.out) /\ last.include_affordances) =>
        LET configured == locations[last.location_id].affordances
        IN /\ Len(last.out.affordances) = Len(configured)
           /\ \A i \in DOMAIN configured :
                /\ last.out.affordances[i].affordance_type = configured[i].affordance_type
                /\ last.out.affordances[i].enabled
                     = (configured[i].enabled /\ registry[configured[i].affordance_type])

\* C5 witness: an affordance enabled at the location but switched off in the
\* registry is reported disabled.
C5_Witness ==
    /\ last.op = "get_location_state"
    /\ ~IsError(last.out)
    /\ \E i \in DOMAIN last.out.affordances :
          /\ locations[last.location_id].affordances[i].enabled
          /\ ~registry[last.out.affordances[i].affordance_type]
          /\ ~last.out.affordances[i].enabled

\* C6: a location-scoped operation on an id that is not in the store answers
\* with the not-found error record and leaves the store as it was.
C6_UnknownLocationNotFound ==
    [][(last'.op \in LocationScopedOps /\ last'.location_id \notin DOMAIN locations)
         => (last'.out = NotFoundError(last'.location_id) /\ locations' = locations)]_vars

\* C6 witness: a prediction for an unknown location was answered not-found.
C6_Witness ==
    /\ last.op = "predict_action"
    /\ last.location_id = UnknownLocation
    /\ last.out = NotFoundError(UnknownLocation)
    /\ DOMAIN locations = LocationIds

QueryAnswered ==
    /\ last.op = "query_traces"
    /\ ~(Truthy(last.query.channel) /\ last.query.channel \notin DecayChannel)

QueryOfUnknownLocation ==
    /\ QueryAnswered
    /\ Truthy(last.query.location_id)
    /\ last.query.location_id \notin DOMAIN locations

\* C7: query_traces filtered on a location id that is not in the store
\* answers with the not-found error record on either entry point and raises
\* nothing.
C7_QueryUnknownLocationNotFound ==
    QueryOfUnknownLocation =>
        IF last.entry = "fastmcp"
        THEN last.out.exc = None /\ last.out.value = <<NotFoundError(last.query.location_id)>>
        ELSE "statusCode" \notin DOMAIN last.out
             /\ last.out.result.content = <<NotFoundError(last.query.location_id)>>

\* C8: a channel outside personal, group, behavior is rejected on either
\* entry point with an error that names the accepted set.
C8_InvalidChannelRejected ==
    (last.op = "query_traces" /\ Truthy(last.query.channel)
        /\ last.query.channel \notin DecayChannel) =>
        IF last.entry = "fastmcp"
        THEN /\ last.out.exc = None
             /\ Len(last.out.value) = 1
             /\ IsError(last.out.value[1])
             /\ Range(last.out.value[1].error.use) = DecayChannel
        ELSE /\ "error" \in DOMAIN last.out
             /\ DecayChannel \subseteq last.out.error.message.mentions

QueryListed ==
    /\ QueryAnswered
    /\ last.entry = "fastmcp"
    /\ last.out.exc = None

Scanned(query) ==
    IF Truthy(query.location_id) THEN <<query.location_id>> ELSE list_locations(locations)

CountIn(s, x) == Cardinality({i \in DOMAIN s : s[i] = x})

IsDescending(s) ==
    \A i \in DOMAIN s : \A j \in DOMAIN s :
        i < j => s[i].decayed_value >= s[j].decayed_value

\* C9: for limit >= 0 the result is in descending order of decayed value, has
\* min(limit, number of matches) elements, each of them a match, and no
\* omitted match has a strictly greater decayed value than a returned one.
C9_SortedThenTruncated ==
    (QueryListed /\ last.query.limit >= 0) =>
        LET matches == QueryCandidates(locations, Scanned(last.query), last.query, now)
            result == last.out.value
        IN /\ IsDescending(result)
           /\ Len(result) = Min(last.query.limit, Len(matches))
           /\ \A i \in DOMAIN result : CountIn(result, result[i]) <= CountIn(matches, result[i])
           /\ \A i \in DOMAIN matches : \A j \in DOMAIN result :
                matches[i].decayed_value > result[j].decayed_value
                    => CountIn(result, matches[i]) = CountIn(matches, matches[i])

\* C9 witness: a query over all locations, both holding traces, cut to fewer
\* elements than match, whose result is not a prefix of the unsorted matches.
C9_Witness ==
    /\ QueryListed
    /\ last.query.location_id = None
    /\ last.query.limit >= 1
    /\ \A id \in LocationIds : locations[id].behavior_traces # <<>>
    /\ LET matches == QueryCandidates(locations, Scanned(last.query), last.query, now)
       IN /\ Len(matches) > last.query.limit
          /\ last.out.value # SubSeq(matches, 1, last.query.limit)

\* The same query with no intensity threshold and no limit.
Unfiltered(query) ==
    query_traces(locations,
        [query EXCEPT !.min_intensity = 0,
                      !.limit = Len(QueryCandidates(locations, Scanned(query),
                                        [query EXCEPT !.min_intensity = 0], now))],
        now).value

AtLeast(s, m) == SelectSeq(s, LAMBDA x : x.decayed_value >= m)

\* C10: no returned trace has a decayed value below min_intensity, and for
\* limit >= 0 the result is the first limit elements of the matching traces
\* whose decayed value is >= min_intensity (equality kept).
C10_MinIntensityFilter ==
    QueryListed =>
        /\ \A i \in DOMAIN last.out.value :
              last.out.value[i].decayed_value >= last.query.min_intensity
        /\ last.query.limit >= 0 =>
              LET kept == AtLeast(Unfiltered(last.query), last.query.min_intensity)
              IN last.out.value = SubSeq(kept, 1, Min(last.query.limit, Len(kept)))

\* C10 witness: a trace decayed to exactly min_intensity is returned while a
\* weaker match is dropped.
C10_Witness ==
    /\ QueryListed
    /\ last.query.min_intensity > 0
    /\ \E i \in DOMAIN last.out.value :
          last.out.value[i].decayed_value = last.query.min_intensity
    /\ \E i \in DOMAIN Unfiltered(last.query) :
          Unfiltered(last.query)[i].decayed_value < last.query.min_intensity

\* The list a successful query_traces call answers with, on either entry point.
QuerySucceeded ==
    /\ QueryAnswered
    /\ IF last.entry = "fastmcp" THEN last.out.exc = None
       ELSE "statusCode" \notin DOMAIN last.out

QueryResult ==
    IF last.entry = "fastmcp" THEN last.out.value ELSE last.out.result.content

\* C11: for every limit, negative ones included, query_traces returns at
\* most max(0, limit) traces.
C11_LimitCapsCount ==
    QuerySucceeded => Len(QueryResult) <= Max(0, last.query.limit)

InfoSubject(info) == info.key[2]

InfoEventType(info) ==
    IF info.channel = "behavior" THEN info.key
    ELSE SubSeq(info.key, 3, Len(info.key) - 1)

\* C12: with an actor filter every returned trace is a personal-channel
\* trace keyed by that actor.
C12_ActorFilterPersonalOnly ==
    (QuerySucceeded /\ Truthy(last.query.actor_id)) =>
        \A i \in DOMAIN QueryResult :
            /\ QueryResult[i].channel = "personal"
            /\ InfoSubject(QueryResult[i]) = last.query.actor_id

\* The raw traces a location holds, one record per trace.
StoredTraces(location) ==
    {[channel |-> "personal", subject |-> tr.key[1], event_type |-> tr.key[2],
      rec |-> tr.rec] : tr \in Range(location.personal_traces)}
    \cup {[channel |-> "group", subject |-> tr.key[1], event_type |-> tr.key[2],
           rec |-> tr.rec] : tr \in Range(location.group_traces)}
    \cup {[channel |-> "behavior", subject |-> None, event_type |-> tr.key,
           rec |-> tr.rec] : tr \in Range(location.behavior_traces)}

Describes(info, stored) ==
    /\ info.channel = stored.channel
    /\ InfoEventType(info) = stored.event_type
    /\ stored.channel # "behavior" => InfoSubject(info) = stored.subject
    /\ info.accumulated = stored.rec.accumulated
    /\ info.last_updated = stored.rec.last_updated
    /\ info.event_count = stored.rec.event_count

StoredCount ==
    SumSeq([i \in DOMAIN LocationOrder |->
        Cardinality(StoredTraces(locations[LocationOrder[i]]))])

PassesFilters(stored, query) ==
    /\ Truthy(query.channel) => stored.channel = query.channel
    /\ query.event_type # NoEventType => stored.event_type = query.event_type
    /\ (Truthy(query.actor_id) /\ stored.channel = "personal")
          => stored.subject = query.actor_id
    /\ get_decayed_value(stored.rec, half_lives[stored.channel] * SecondsPerDay, now)
          >= query.min_intensity

\* C13: with a channel filter every returned trace is from that channel;
\* with an event-type filter every returned trace has exactly that event
\* type; with a location filter every returned trace is a trace of that
\* location; with no location filter every trace of every location that
\* passes the other filters is returned, the limit permitting.
C13_FilterSoundness ==
    QuerySucceeded =>
        /\ Truthy(last.query.channel) =>
              \A i \in DOMAIN QueryResult : QueryResult[i].channel = last.query.channel
        /\ last.query.event_type # NoEventType =>
              \A i \in DOMAIN QueryResult :
                  InfoEventType(QueryResult[i]) = last.query.event_type
        /\ Truthy(last.query.location_id) =>
              \A i \in DOMAIN QueryResult :
                  \E stored \in StoredTraces(locations[last.query.location_id]) :
                      Describes(QueryResult[i], stored)
        /\ (~Truthy(last.query.location_id) /\ last.query.limit >= StoredCount) =>
              \A id \in DOMAIN locations : \A stored \in StoredTraces(locations[id]) :
                  PassesFilters(stored, last.query) =>
                      \E i \in DOMAIN QueryResult : Describes(QueryResult[i], stored)

\* C13 witness: an event-type filter with no channel filter returned traces
\* of more than one channel while a stored trace of another event type was
\* left out.
C13_Witness ==
    /\ QuerySucceeded
    /\ last.query.event_type = HarmFire
    /\ last.query.channel = None
    /\ \E i \in DOMAIN QueryResult : \E j \in DOMAIN QueryResult :
          QueryResult[i].channel # QueryResult[j].channel
    /\ \E id \in DOMAIN locations : \E stored \in StoredTraces(locations[id]) :
          stored.event_type = OfferGift

ValuationExplained ==
    /\ last.op = "explain_valuation"
    /\ last.location_id \in DOMAIN locations

\* The explanation record of either entry point.
Explanation ==
    IF last.entry = "fastmcp" THEN last.out ELSE last.out.result.content[1].text

\* C14: explain_valuation answers (profile[eventType], exact) when the event
\* type is a key of the profile, else (profile[category], category) when the
\* part before the first '.' is a key, else (0.0, default); the FastMCP tool
\* and the Lambda route answer the same weight and match_type.
C14_ValuationPrecedence ==
    ValuationExplained =>
        LET profile == locations[last.location_id].valuation_profile
            e == last.event_type
            head == SubSeq(e, 1, 1)
        IN /\ e \in DOMAIN profile =>
                Explanation.weight = profile[e] /\ Explanation.match_type = "exact"
           /\ (e \notin DOMAIN profile /\ head \in DOMAIN profile) =>
                Explanation.weight = profile[head] /\ Explanation.match_type = "category"
           /\ (e \notin DOMAIN profile /\ head \notin DOMAIN profile) =>
                Explanation.weight = 0 /\ Explanation.match_type = "default"

\* C14 witness: the Lambda route answers "exact" for an event type whose
\* category is a key of the profile too, with a different weight.
C14_Witness ==
    /\ ValuationExplained
    /\ last.entry = "lambda"
    /\ Explanation.match_type = "exact"
    /\ LET profile == locations[last.location_id].valuation_profile
       IN /\ SubSeq(last.event_type, 1, 1) \in DOMAIN profile
          /\ profile[SubSeq(last.event_type, 1, 1)] # Explanation.weight

HistoryAnswered == last.op = "get_world_history" /\ ~IsError(last.out)

HistoryCutoff == now - last.time_window_days * SecondsPerDay

InWindow(channel) ==
    {stored \in StoredTraces(locations[last.location_id]) :
        stored.channel = channel /\ stored.rec.last_updated >= HistoryCutoff}

RECURSIVE Accumulated(_)
Accumulated(traces) ==
    IF traces = {} THEN 0
    ELSE LET stored == CHOOSE x \in traces : TRUE
         IN stored.rec.accumulated + Accumulated(traces \ {stored})

CategoryTotal(category) ==
    Accumulated({stored \in InWindow("behavior") : Head(stored.event_type) = category})

\* C15: over the in-window behavior totals, harm > 0.5 gives violent if
\* harm >= 1.0 else troubled; otherwise offer > 0.3 or create > 0.3 gives
\* sacred if offer > 0.5 else peaceful; otherwise peaceful.  The mood is one
\* of the four and harm takes precedence.
C15_MoodTable ==
    HistoryAnswered =>
        LET harm == CategoryTotal("harm")
            offer == CategoryTotal("offer")
            create == CategoryTotal("create")
            half == Milli \div 2
            third == (3 * Milli) \div 10
            mood == last.out.mood
        IN /\ mood \in {"peaceful", "troubled", "violent", "sacred"}
           /\ (harm > half /\ harm >= Milli) => mood = "violent"
           /\ (harm > half /\ harm < Milli) => mood = "troubled"
           /\ (harm <= half /\ (offer > third \/ create > third) /\ offer > half)
                 => mood = "sacred"
           /\ (harm <= half /\ (offer > third \/ create > third) /\ offer <= half)
                 => mood = "peaceful"
           /\ (harm <= half /\ offer <= third /\ create <= third) => mood = "peaceful"

\* C15 witness: two harm traces that only together exceed 0.5 outweigh an
\* offering above 0.5: the mood is violent, not sacred.
C15_Witness ==
    /\ HistoryAnswered
    /\ last.out.mood = "violent"
    /\ CategoryTotal("offer") > Milli \div 2
    /\ \A stored \in InWindow("behavior") : stored.rec.accumulated <= Milli \div 2 + 1

IsListed(stored) ==
    \E i \in DOMAIN last.out.dominant_events :
        /\ last.out.dominant_events[i].actor = stored.subject
        /\ last.out.dominant_events[i].event_type = stored.event_type
        /\ last.out.dominant_events[i].intensity = stored.rec.accumulated
        /\ last.out.dominant_events[i].count = stored.rec.event_count

\* C16: the summary lists min(10, candidates) dominant events, each an
\* in-window personal trace, in descending order of intensity, none of the
\* left-out candidates stronger than a listed one; and min(10, actors)
\* notable actors, each the actor of an in-window personal trace.
C16_HistoryCaps ==
    HistoryAnswered =>
        LET events == last.out.dominant_events
            actors == {stored.subject : stored \in InWindow("personal")}
        IN /\ Len(events) = Min(10, Cardinality(InWindow("personal")))
           /\ \A i \in DOMAIN events : \A j \in DOMAIN events :
                i < j => /\ events[i].intensity >= events[j].intensity
                         /\ <<events[i].actor, events[i].event_type>>
                              # <<events[j].actor, events[j].event_type>>
           /\ \A i \in DOMAIN events :
                \E stored \in InWindow("personal") :
                    /\ events[i].actor = stored.subject
                    /\ events[i].event_type = stored.event_type
                    /\ events[i].intensity = stored.rec.accumulated
           /\ \A stored \in InWindow("personal") :
                (\E i \in DOMAIN events : stored.rec.accumulated > events[i].intensity)
                    => IsListed(stored)
           /\ last.out.notable_actors \subseteq actors
           /\ Cardinality(last.out.notable_actors) = Min(10, Cardinality(actors))

\* C16 witness: thirteen in-window candidates of twelve actors were cut to
\* ten events, not the first ten in store order, and ten actors.
C16_Witness ==
    /\ HistoryAnswered
    /\ Cardinality(InWindow("personal")) > 10
    /\ Cardinality({stored.subject : stored \in InWindow("personal")}) > 10
    /\ Len(last.out.dominant_events) = 10
    /\ Cardinality(last.out.notable_actors) = 10
    /\ \E i \in 1..10 :
          last.out.dominant_events[i].actor
             # locations[last.location_id].personal_traces[i].key[1]

AffordancesReported ==
    /\ last.op = "get_location_state"
    /\ ~IsError(last.out)
    /\ last.include_affordances

CooldownsReported ==
    AffordancesReported =>
        LET location == locations[last.location_id]
        IN \A i \in DOMAIN location.affordances :
            LET type == location.affordances[i].affordance_type
                reported == last.out.affordances[i].cooldown_remaining
            IN /\ type \in DOMAIN location.cooldowns =>
                    /\ Len(reported) = 1
                    /\ reported[1] >= 0
                    /\ now >= location.cooldowns[type] => reported[1] = 0
                    /\ now < location.cooldowns[type]
                          => reported[1] = location.cooldowns[type] - now
               /\ type \notin DOMAIN location.cooldowns => reported = <<>>
               /\ last.out.affordances[i].enabled
                    = (location.affordances[i].enabled /\ registry[type])

\* C17: get_location_state reports cooldown_remaining = max(0, until - now)
\* for an affordance type with a cooldown entry and no value for one
\* without; the report leaves the cooldown map as it was and the enabled
\* field is what it is without any cooldown.
C17_CooldownReporting ==
    [][last'.op = "get_location_state" => (locations' = locations /\ CooldownsReported')]_vars

\* C17 witness: one report holds an expired cooldown shown as 0, a running
\* one shown with its positive remainder on an affordance still reported
\* enabled, and an affordance with no entry.
C17_Witness ==
    /\ AffordancesReported
    /\ LET location == locations[last.location_id]
           reported == last.out.affordances
       IN /\ \E i \in DOMAIN reported :
                /\ reported[i].cooldown_remaining = <<0>>
                /\ location.cooldowns[reported[i].affordance_type] < now
          /\ \E i \in DOMAIN reported :
                /\ Len(reported[i].cooldown_remaining) = 1
                /\ reported[i].cooldown_remaining[1] > 0
                /\ reported[i].enabled
          /\ \E i \in DOMAIN reported : reported[i].cooldown_remaining = <<>>

AffinityAnswered == last.op = "compute_affinity" /\ ~IsError(last.out)

\* The AffinityScore records in the answer of the last operation.
ScoresAnswered ==
    IF AffinityAnswered THEN {last.out}
    ELSE IF PredictionAnswered THEN {last.out.affinity_before, last.out.affinity_after}
    ELSE {}

Blend(score) ==
    (score.personal * channel_weights.personal + score.group * channel_weights.group
        + score.behavior * channel_weights.behavior) \div Milli

\* C18: in every AffinityScore total is the blend of the personal, group and
\* behavior scores of the same record under the configured channel weights,
\* and the three scores of a compute_affinity answer are the channel scores
\* at the one time of the call.
C18_AffinityBlend ==
    /\ \A score \in ScoresAnswered : score.total = Blend(score)
    /\ AffinityAnswered =>
          LET location == locations[last.location_id]
          IN /\ last.out.personal =
                    score_personal(location.personal_traces, last.actor_id,
                                   half_lives.personal * SecondsPerDay,
                                   location.valuation_profile, now)
             /\ last.out.group =
                    score_group(location.group_traces, last.actor_tags,
                                half_lives.group * SecondsPerDay,
                                location.valuation_profile, now)
             /\ last.out.behavior =
                    score_behavior(location.behavior_traces,
                                   half_lives.behavior * SecondsPerDay,
                                   location.valuation_profile, now)

\* C18 witness: an answer whose three channel scores are non-zero and
\* pairwise different, a day after the events.
C18_Witness ==
    /\ AffinityAnswered
    /\ now > 0
    /\ last.out.personal # 0 /\ last.out.group # 0 /\ last.out.behavior # 0
    /\ last.out.personal # last.out.group
    /\ last.out.group # last.out.behavior
    /\ last.out.personal # last.out.behavior
    /\ last.out.total # 0

LabelRank ==
    [label \in {"hostile", "wary", "neutral", "warm", "favorable"} |->
        CASE label = "hostile" -> 1
          [] label = "wary" -> 2
          [] label = "neutral" -> 3
          [] label = "warm" -> 4
          [] OTHER -> 5]

\* C19: the label of a total is one of hostile, wary, neutral, warm,
\* favorable, and of two totals the lower one never has the higher label.
C19_LabelMonotonic ==
    last.op = "threshold_label" =>
        /\ \A i \in 1..2 : last.out[i] \in DOMAIN LabelRank
        /\ last.totals[1] <= last.totals[2]
              => LabelRank[last.out[1]] <= LabelRank[last.out[2]]

\* C19 witness: two totals one thousandth apart fall into wary and neutral.
C19_Witness ==
    /\ last.op = "threshold_label"
    /\ last.totals[2] = last.totals[1] + 1
    /\ last.out = <<"wary", "neutral">>

ReadOps ==
    {"get_location_state", "list_locations", "compute_affinity", "query_traces",
     "get_world_history", "get_affordance_registry", "explain_valuation",
     "export_world_state"}

\* The answer the operation in `last` gives when it is called again now.
ReadAgain ==
    CASE last.op = "get_location_state" ->
            tool_get_location_state(locations, registry, last.location_id,
                                    last.include_traces, last.include_affordances, now)
      [] last.op = "list_locations" -> list_locations(locations)
      [] last.op = "compute_affinity" ->
            tool_compute_affinity(locations, last.location_id, last.actor_id,
                                  last.actor_tags, now)
      [] last.op = "query_traces" ->
            tool_query_traces(locations, last.query.location_id, last.query.actor_id,
                              last.query.event_type, last.query.channel,
                              last.query.min_intensity, last.query.limit, now)
      [] last.op = "get_world_history" ->
            tool_get_world_history(locations, last.location_id, last.time_window_days, now,
                                   IF IsError(last.out) THEN {} ELSE last.out.notable_actors)
      [] last.op = "get_affordance_registry" -> admin_get_registry(registry)
      [] last.op = "explain_valuation" ->
            tool_explain_valuation(locations, last.location_id, last.event_type)
      [] last.op = "export_world_state" -> export_world_state(locations, registry, now)

ReadIsRepeatable == last.op \in ReadOps => last.out = ReadAgain

\* C20: a read operation leaves the store (the location ids and each
\* location's traces, saturation, cooldowns and last_tick) as it was, and
\* called again at the same time it gives the same answer.
C20_ReadsLeaveStore ==
    /\ [][last'.op \in ReadOps => locations' = locations]_vars
    /\ []ReadIsRepeatable

\* C20 witness: the world was exported a day after two events were logged.
C20_Witness ==
    /\ last.op = "export_world_state"
    /\ now > 0
    /\ logged = MaxEvents
    /\ \E id \in DOMAIN last.out : last.out[id].traces # <<>>

\* The store after the event of a prediction is logged for real at time t.
LoggedForReal(prediction, t) ==
    [locations EXCEPT ![prediction.location_id] =
        log_event(@, PredictionEvent(prediction), t)]

\* C21: a prediction reports as affinity_before the affinity of the
\* unmodified location, and as affinity_after the affinity the same actor
\* and tags get once the same event is logged to the location for real at
\* the same time (record creation or accumulation, capacity clamp and scar
\* promotion included), each evaluated at the time the prediction read it.
C21_PredictionMatchesLogging ==
    [][(last'.op = "predict_action" /\ DOMAIN last'.out # {"error"}) =>
          LET prediction == last'.prediction
          IN /\ last'.out.affinity_before =
                    compute_affinity_for_actor(locations, prediction.location_id,
                        prediction.actor_id, prediction.actor_tags, now)
             /\ last'.out.affinity_after =
                    compute_affinity_for_actor(LoggedForReal(prediction, now),
                        prediction.location_id, prediction.actor_id,
                        prediction.actor_tags, now')]_vars

\* C21 witness: the predicted event would push an existing personal trace
\* of the actor over the channel capacity, and the prediction reports a
\* changed affinity.
C21_Witness ==
    /\ PredictionAnswered
    /\ last.out.affinity_after.total # last.out.affinity_before.total
    /\ \E tr \in Range(locations[last.location_id].personal_traces) :
          /\ tr.key = <<last.prediction.actor_id, last.prediction.event_type>>
          /\ tr.rec.accumulated < saturation_capacity.personal
          /\ tr.rec.accumulated + last.prediction.intensity > saturation_capacity.personal

LocationFields ==
    {"location_id", "name", "description", "valuation_profile", "affordances",
     "personal_traces", "group_traces", "behavior_traces", "saturation", "cooldowns",
     "last_tick"}

WellFormed(data) ==
    /\ data # NoneResult
    /\ {"location_id", "name"} \subseteq DOMAIN data
    /\ "affordances" \in DOMAIN data =>
          \A i \in DOMAIN data.affordances : "type" \in DOMAIN data.affordances[i]

\* The location is the one the definition describes, with no trace yet.
BuiltFrom(location, data) ==
    /\ DOMAIN location = LocationFields
    /\ location.location_id = data.location_id
    /\ location.name = data.name
    /\ location.valuation_profile
          = (IF "valuation_profile" \in DOMAIN data THEN data.valuation_profile ELSE <<>>)
    /\ LET declared == IF "affordances" \in DOMAIN data THEN data.affordances ELSE <<>>
       IN /\ Len(location.affordances) = Len(declared)
          /\ \A i \in DOMAIN declared :
                location.affordances[i].affordance_type = declared[i].type
    /\ location.personal_traces = <<>>
    /\ location.group_traces = <<>>
    /\ location.behavior_traces = <<>>

\* C22: at every point of the load, in every order of the files, exactly
\* the malformed files read so far are reported; the store holds exactly
\* the ids of the well-formed files read so far, each mapped to a complete
\* location built from a well-formed file of that id (from the one such
\* file when the id is defined once); nothing of a malformed file is stored.
C22_LoadTolerance ==
    last.op = "load_yaml_locations" =>
        LET read == last.files \ last.pending
            good == {f \in read : WellFormed(f.data)}
        IN /\ last.warnings = {f.file : f \in read \ good}
           /\ DOMAIN locations = {f.data.location_id : f \in good}
           /\ \A id \in DOMAIN locations :
                \E f \in good : f.data.location_id = id /\ BuiltFrom(locations[id], f.data)
           /\ \A f \in good :
                (\A g \in good : g.data.location_id = f.data.location_id => g = f)
                    => BuiltFrom(locations[f.data.location_id], f.data)

\* C22 witness: all seven files were read; the four malformed ones are
\* reported, two of them naming the id of a location that was loaded from
\* its well-formed file.
C22_Witness ==
    /\ last.op = "load_yaml_locations"
    /\ last.pending = {}
    /\ Cardinality(last.warnings) = 4
    /\ DOMAIN locations = LocationIds
    /\ locations["sunken_ruins"].name = "Sunken Ruins"
    /\ locations["sunken_ruins"].valuation_profile = <<>>
    /\ Len(locations["whispering_woods"].affordances) # 1

LambdaAnswered == last.op = "lambda_handler"

EventBody(event) == IF "body" \in DOMAIN event THEN event.body ELSE event

IsInvalidJson(event) ==
    "str" \in DOMAIN EventBody(event) /\ EventBody(event).json = <<>>

\* The JSON-RPC request an event carries, when its body is not broken text.
RequestOf(event) ==
    IF "str" \in DOMAIN EventBody(event) THEN EventBody(event).json[1]
    ELSE EventBody(event)

MethodOf(request) == IF "method" \in DOMAIN request THEN request.method ELSE <<>>

IsErrorResponse(out, status_code) ==
    DOMAIN out = {"statusCode", "error"} /\ out.statusCode = status_code

ResponseBody(out) == IF "statusCode" \in DOMAIN out THEN out.body ELSE out

\* C24: a tools/list request is answered with the list of the nine tool
\* definitions and a resources/list request with the list of the four
\* resource definitions, not with the answer of the tool-call or the
\* resource-read handler.
C24_ListRouting ==
    (LambdaAnswered /\ ~IsInvalidJson(last.event)) =>
        LET method == MethodOf(RequestOf(last.event))
        IN /\ method = <<"tools", "list">> =>
                /\ "error" \notin DOMAIN last.out
                /\ DOMAIN ResponseBody(last.out).result = {"tools"}
                /\ Len(ResponseBody(last.out).result.tools) = 9
           /\ method = <<"resources", "list">> =>
                /\ "error" \notin DOMAIN last.out
                /\ DOMAIN ResponseBody(last.out).result = {"resources"}
                /\ Len(ResponseBody(last.out).result.resources) = 4

IsRouted(request) ==
    \/ MethodOf(request) = <<"initialize">>
    \/ /\ Len(MethodOf(request)) >= 2
       /\ MethodOf(request)[1] \in {"tools", "resources"}

\* The requests whose handling raises: a body that is no JSON object, a tool
\* called without a required argument, a channel outside the enumeration,
\* a trace query on a location that is not stored.
Raises(request) ==
    \/ "list" \in DOMAIN request
    \/ /\ "list" \notin DOMAIN request
       /\ Len(MethodOf(request)) >= 2
       /\ MethodOf(request)[1] = "tools"
       /\ "params" \in DOMAIN request
       /\ "name" \in DOMAIN request.params
       /\ LET name == request.params.name[1]
              arguments == request.params.arguments
          IN \/ /\ name \in {"get_location_state", "compute_affinity", "explain_valuation"}
                /\ "location_id" \notin DOMAIN arguments
             \/ /\ name = "query_traces"
                /\ "channel" \in DOMAIN arguments
                /\ arguments.channel \notin {"personal", "group", "behavior"}
             \/ /\ name = "query_traces"
                /\ "location_id" \in DOMAIN arguments
                /\ arguments.location_id \notin DOMAIN locations

LambdaOutcomes ==
    LambdaAnswered =>
        LET event == last.event
            out == last.out
        IN IF IsInvalidJson(event) THEN IsErrorResponse(out, 400)
           ELSE LET request == RequestOf(event)
                IN /\ Raises(request) <=> IsErrorResponse(out, 500)
                   /\ (~Raises(request) /\ ~IsRouted(request)) <=> IsErrorResponse(out, 400)
                   /\ (~Raises(request) /\ IsRouted(request)) <=>
                         /\ "error" \notin DOMAIN out
                         /\ DOMAIN ResponseBody(out) = {"jsonrpc", "id", "result"}
                         /\ ResponseBody(out).jsonrpc = "2.0"
                         /\ ResponseBody(out).id
                              = (IF "id" \in DOMAIN request THEN request.id ELSE 1)
                         /\ ("statusCode" \in DOMAIN out) <=> ("requestContext" \in DOMAIN event)
                         /\ ("statusCode" \in DOMAIN out) => out.statusCode = 200

C26_ResourceNotFound ==
    /\ (last.op = "location_resource" /\ last.location_id \notin DOMAIN locations)
          => last.out = NotFoundError(last.location_id)
    /\ (LambdaAnswered /\ ~IsInvalidJson(last.event)) =>
          LET request == RequestOf(last.event)
          IN (/\ MethodOf(request) = <<"resources", "read">>
              /\ "uri" \in DOMAIN request.params
              /\ request.params.uri[1] = "location"
              /\ request.params.uri[2] \notin DOMAIN locations)
                => \/ "error" \in DOMAIN last.out
                   \/ DOMAIN ResponseBody(last.out).result.contents[1].text = {"error"}

\* C27: whenever every prediction that was started has returned, whatever
\* the interleaving, the store maps each location id to the location as
\* loaded, with no trace of a hypothetical event.
C27_ConcurrentPredictionsRestore ==
    (\A t \in Threads : pc[t] = "idle") => locations = load_yaml_locations

\* C28: a prediction that ends with an error, raised while the hypothetical
\* event is applied or while affinity_after is computed, leaves the store
\* mapping the location id to the original, unmodified location.
C28_FailureLeavesStore ==
    [][(last'.op = "predict_action" /\ last'.exc # None) => locations' = locations]_vars

\* The event of the prediction adds nothing to any score of the location.
ContributesNothing(prediction) ==
    \/ prediction.intensity = 0
    \/ valuation_weight(locations[prediction.location_id].valuation_profile,
                        prediction.event_type) = 0

\* C29: a prediction whose event contributes nothing (its event type has
\* valuation weight 0, or its intensity is 0) reports affinity_after equal
\* to affinity_before, also when the clock advances during the call.
C29_SingleTimeReference ==
    (PredictionAnswered /\ ContributesNothing(last.prediction)) =>
        last.out.affinity_after = last.out.affinity_before

\* C30: in every history summary each actor named in a returned dominant
\* event is one of the notable actors, and each notable actor has a
\* personal trace updated inside the window, however many actors and
\* traces the window holds.
C30_HistoryConsistency ==
    HistoryAnswered =>
        /\ \A i \in DOMAIN last.out.dominant_events :
              last.out.dominant_events[i].actor \in last.out.notable_actors
        /\ \A actor \in last.out.notable_actors :
              \E stored \in InWindow("personal") : stored.subject = actor

====
